---------------------------- MODULE Spec2Model ----------------------------
(***************************************************************************)
(* Keyword analysis pipeline of Resumagic (services/keyword-analysis):     *)
(* scoring, knockout classification, knockout cap, degree guardrail,       *)
(* alias clustering, median trimming and top-N selection.                  *)
(*                                                                         *)
(* Representation.                                                         *)
(*  - A keyword text is a sequence of lower-case phrases ("tokens") joined  *)
(*    by single blanks.  Every regular expression of the configuration is  *)
(*    modelled by the predicate it induces on such sequences; patterns     *)
(*    that match no text over the vocabulary are left out of the pattern   *)
(*    lists.                                                               *)
(*  - Scores, tfidf, section boosts and role weights are integers in       *)
(*    thousandths (0.24 is 240); knockout confidences and the knockout     *)
(*    increments are integers in tenths (0.6 is 6).                        *)
(*  - A python dict is a record; a python list is a sequence; list.sort    *)
(*    and sorted are stable.                                               *)
(***************************************************************************)
EXTENDS Integers, Sequences, FiniteSets, TLC

VARIABLES
    pc,                    \* position of main() / of the unit call
    keywords,              \* loaded keyword list: [text, role]
    job_text,              \* the posting: set of texts it mentions
    args,                  \* command line and configuration of the run
    results,               \* list of keyword result dicts
    canonical_keywords,    \* knockouts + clustered skills
    knockout_keywords,     \* knockouts when clustering starts
    clustered_skills,      \* output of cluster_aliases
    trimmed_skills,        \* output of trim_by_median
    knockout_requirements, \* final knockout list
    top_skills,            \* final skills list
    saved,                 \* the analysis file written by save_output_files
    call,                  \* unit call: the function applied and its arguments
    ret,                   \* unit call: the value returned
    files,                 \* what opening each input file found, once opened
    exit_status,           \* "running", or how the process ended
    runs                   \* runs sharing one process and its configuration

vars == <<pc, keywords, job_text, args, results, canonical_keywords,
          knockout_keywords, clustered_skills, trimmed_skills,
          knockout_requirements, top_skills, saved, call, ret,
          files, exit_status, runs>>

process_vars == <<files, exit_status, runs>>

pipeline_vars == <<keywords, job_text, args, results, canonical_keywords,
                   knockout_keywords, clustered_skills, trimmed_skills,
                   knockout_requirements, top_skills, saved>>

(***************************************************************************)
(* Bounds of the model.                                                    *)
(***************************************************************************)
MaxWords == 2
MaxKeywords == 3
MaxResults == 3
MaxCap == 2
MaxFloor == 2
MaxContent == 4
MaxCount == 12

(***************************************************************************)
(* Generic helpers.                                                        *)
(***************************************************************************)
Range(s) == {s[i] : i \in 1..Len(s)}

SeqsUpTo(S, n) == UNION {[1..k -> S] : k \in 0..n}

RECURSIVE SumSeq(_)
SumSeq(s) == IF s = <<>> THEN 0 ELSE Head(s) + SumSeq(Tail(s))

Min(a, b) == IF a <= b THEN a ELSE b

\* python: [x for x in s if P(x)]
Filter(s, P(_)) == SelectSeq(s, P)

\* python: s[:n]
Take(s, n) == SubSeq(s, 1, Min(n, Len(s)))

\* python: s[n:]
Drop(s, n) == SubSeq(s, Min(n, Len(s)) + 1, Len(s))

\* Lexicographic order on integer tuples of equal length (python tuple <).
RECURSIVE KeyLess(_, _)
KeyLess(a, b) ==
    IF a = <<>> THEN FALSE
    ELSE IF Head(a) # Head(b) THEN Head(a) < Head(b)
         ELSE KeyLess(Tail(a), Tail(b))

\* Stable insertion of the keyed element x into the sorted sequence s: x goes
\* before the first element whose key is strictly greater, so elements with
\* equal keys keep their input order.
RECURSIVE InsertStable(_, _)
InsertStable(x, s) ==
    IF s = <<>> THEN <<x>>
    ELSE IF KeyLess(x.key, Head(s).key) THEN <<x>> \o s
         ELSE <<Head(s)>> \o InsertStable(x, Tail(s))

RECURSIVE SortKeyed(_)
SortKeyed(ks) ==
    IF ks = <<>> THEN <<>>
    ELSE InsertStable(ks[Len(ks)], SortKeyed(SubSeq(ks, 1, Len(ks) - 1)))

\* python: sorted(s, key=Key), ascending and stable.  list.sort(key=k,
\* reverse=True) is the stable ascending sort on the negated key.
SortedBy(s, Key(_)) ==
    LET ks == SortKeyed([i \in 1..Len(s) |-> [key |-> Key(s[i]), val |-> s[i]]])
    IN  [i \in 1..Len(s) |-> ks[i].val]

(***************************************************************************)
(* Vocabulary of keyword texts.                                            *)
(***************************************************************************)
Tokens == {"5+ years", "five years", "bachelor's degree", "mba",
           "computer science", "required", "preferred", "bonus",
           "collaborative", "travel", "product management", "minimum",
           "experience", "strategy"}

Texts == SeqsUpTo(Tokens, MaxWords) \ {<<>>}

HasToken(text, T) == \E i \in 1..Len(text) : text[i] \in T

\* some token of A occurs strictly before some token of B  (regex A.*B)
Precedes(text, A, B) ==
    \E i, j \in 1..Len(text) : i < j /\ text[i] \in A /\ text[j] \in B

\* a token of A immediately followed by a token of B  (regex A\s+B)
Adjacent(text, A, B) ==
    \E i \in 1..Len(text) - 1 : text[i] \in A /\ text[i + 1] \in B

(***************************************************************************)
(* Configuration: config/constants.py.                                     *)
(***************************************************************************)
\* RoleWeights, in thousandths
role_core == 1200
role_important == 600
role_culture == 300

Roles == {"core", "important", "culture"}

\* KnockoutConfig increments and threshold, in tenths
confidence_threshold == 6
hard_pattern_weight == 6
medium_pattern_weight == 3
years_high_role_weight == 4
degree_high_role_weight == 4
required_language_weight == 2

\* confidence of the years short-circuit (0.8), in tenths
years_based_confidence == 8

\* role_weight >= 1.0, in thousandths
high_role_weight == 1000

\* The patterns of each list that match some text over Tokens, by the regular
\* expression they stand for.
hard_patterns == <<"bachelor'?s?\\s*degree", "\\bmba\\b",
                   "bachelor'?s?(?:[\\s/]|in|degree)", "travel.*required">>

medium_patterns ==
    <<"(required|preferred|must\\s+have).*\\b(degree|education|bachelor|master|mba)",
      "\\b(degree|bachelor|master|mba).*(required|preferred)">>

soft_skill_exclusions == <<"collaborative">>

years_patterns ==
    <<"\\d+\\+?\\s*years?", "(one|...|twenty)\\+?\\s*years?",
      "minimum\\s+(one|...|twenty)\\s*years?",
      "(one|...|twenty)\\s*years?\\s*minimum">>

preferred_indicators == {"preferred", "bonus"}

\* re.search(pattern, text) for the patterns above and the inline patterns of
\* categorization.py and main.py
re_search(pattern, text) ==
    CASE pattern = "bachelor'?s?\\s*degree" -> HasToken(text, {"bachelor's degree"})
      [] pattern = "\\bmba\\b" -> HasToken(text, {"mba"})
      [] pattern = "bachelor'?s?(?:[\\s/]|in|degree)" ->
            HasToken(text, {"bachelor's degree"})
      [] pattern = "travel.*required" -> Precedes(text, {"travel"}, {"required"})
      [] pattern = "(required|preferred|must\\s+have).*\\b(degree|education|bachelor|master|mba)" ->
            Precedes(text, {"required", "preferred"}, {"bachelor's degree", "mba"})
      [] pattern = "\\b(degree|bachelor|master|mba).*(required|preferred)" ->
            Precedes(text, {"bachelor's degree", "mba"}, {"required", "preferred"})
      [] pattern = "collaborative" -> HasToken(text, {"collaborative"})
      [] pattern = "\\d+\\+?\\s*years?" -> HasToken(text, {"5+ years"})
      [] pattern = "(one|...|twenty)\\+?\\s*years?" -> HasToken(text, {"five years"})
      [] pattern = "minimum\\s+(one|...|twenty)\\s*years?" ->
            Adjacent(text, {"minimum"}, {"five years"})
      [] pattern = "(one|...|twenty)\\s*years?\\s*minimum" ->
            Adjacent(text, {"five years"}, {"minimum"})
      [] pattern = "\\b(degree|bachelor|master|mba|phd)\\b" ->
            HasToken(text, {"bachelor's degree", "mba"})
      [] pattern = "\\b(degree|bachelor|master|mba|phd|computer\\s+science)\\b" ->
            HasToken(text, {"bachelor's degree", "mba", "computer science"})
      [] OTHER -> FALSE

(***************************************************************************)
(* kw_rank/core/categorization.py                                          *)
(***************************************************************************)
is_soft_skill(keyword_lower) ==
    \E i \in 1..Len(soft_skill_exclusions) :
        re_search(soft_skill_exclusions[i], keyword_lower)

count_pattern_matches(keyword_lower, patterns) ==
    Cardinality({i \in 1..Len(patterns) : re_search(patterns[i], keyword_lower)})

\* A variant of confidence_increments that adds the weight of a family once
\* per matching pattern, used to test the properties.
confidence_increments_per_match(keyword_lower, role_weight) ==
    LET hard_matches == count_pattern_matches(keyword_lower, hard_patterns)
        medium_matches == count_pattern_matches(keyword_lower, medium_patterns)
        has_years_and_high_role ==
            re_search("\\d+\\+?\\s*years?", keyword_lower)
            /\ role_weight >= high_role_weight
        has_degree_mention ==
            re_search("\\b(degree|bachelor|master|mba|phd)\\b", keyword_lower)
        has_required_language == HasToken(keyword_lower, {"required", "minimum"})
    IN  << hard_matches * hard_pattern_weight,
           medium_matches * medium_pattern_weight,
           IF has_years_and_high_role THEN years_high_role_weight ELSE 0,
           IF has_degree_mention /\ role_weight >= high_role_weight
              THEN degree_high_role_weight ELSE 0,
           IF has_required_language THEN required_language_weight ELSE 0 >>

\* The increments in the order the function adds them.
confidence_increments(keyword_lower, role_weight) ==
    LET hard_matches == count_pattern_matches(keyword_lower, hard_patterns)
        medium_matches == count_pattern_matches(keyword_lower, medium_patterns)
        has_years_and_high_role ==
            re_search("\\d+\\+?\\s*years?", keyword_lower)
            /\ role_weight >= high_role_weight
        has_degree_mention ==
            re_search("\\b(degree|bachelor|master|mba|phd)\\b", keyword_lower)
        has_required_language == HasToken(keyword_lower, {"required", "minimum"})
    IN  << IF hard_matches >= 1 THEN hard_pattern_weight ELSE 0,
           IF medium_matches >= 1 THEN medium_pattern_weight ELSE 0,
           IF has_years_and_high_role THEN years_high_role_weight ELSE 0,
           IF has_degree_mention /\ role_weight >= high_role_weight
              THEN degree_high_role_weight ELSE 0,
           IF has_required_language THEN required_language_weight ELSE 0 >>

calculate_knockout_confidence(keyword_lower, role_weight) ==
    SumSeq(confidence_increments(keyword_lower, role_weight))

is_preferred_requirement(keyword_lower) ==
    HasToken(keyword_lower, preferred_indicators)

\* any(word in kw_lower for word in ['preferred', 'nice to have', 'plus'])
years_preference_language(kw_lower) == HasToken(kw_lower, {"preferred"})

detect_years_knockout(keyword) ==
    IF \E i \in 1..Len(years_patterns) : re_search(years_patterns[i], keyword)
    THEN [is_knockout |-> TRUE,
          knockout_type |-> IF years_preference_language(keyword)
                            THEN "preferred" ELSE "required"]
    ELSE [is_knockout |-> FALSE]

\* Variants of categorize_keyword used to test the properties: one asks for
\* the years patterns before the soft-skill lexicon, one adds the accumulated
\* confidence to the confidence of the years path.
categorize_keyword_years_first(keyword, role_weight) ==
    LET years_result == detect_years_knockout(keyword) IN
    IF years_result.is_knockout
    THEN [category |-> "knockout",
          knockout_type |-> years_result.knockout_type,
          confidence |-> years_based_confidence,
          detection_method |-> "years_based"]
    ELSE IF is_soft_skill(keyword)
    THEN [category |-> "skill", knockout_type |-> "none", confidence |-> 0,
          detection_method |-> "none"]
    ELSE LET knockout_confidence ==
                 calculate_knockout_confidence(keyword, role_weight) IN
         IF knockout_confidence >= confidence_threshold
         THEN [category |-> "knockout",
               knockout_type |-> IF is_preferred_requirement(keyword)
                                 THEN "preferred" ELSE "required",
               confidence |-> knockout_confidence,
               detection_method |-> "pattern_based"]
         ELSE [category |-> "skill", knockout_type |-> "none",
               confidence |-> 0, detection_method |-> "none"]

categorize_keyword_years_accumulates(keyword, role_weight) ==
    IF is_soft_skill(keyword)
    THEN [category |-> "skill", knockout_type |-> "none", confidence |-> 0,
          detection_method |-> "none"]
    ELSE LET years_result == detect_years_knockout(keyword)
             knockout_confidence ==
                 calculate_knockout_confidence(keyword, role_weight) IN
         IF years_result.is_knockout
         THEN [category |-> "knockout",
               knockout_type |-> years_result.knockout_type,
               confidence |-> years_based_confidence + knockout_confidence,
               detection_method |-> "years_based"]
         ELSE IF knockout_confidence >= confidence_threshold
              THEN [category |-> "knockout",
                    knockout_type |-> IF is_preferred_requirement(keyword)
                                      THEN "preferred" ELSE "required",
                    confidence |-> knockout_confidence,
                    detection_method |-> "pattern_based"]
              ELSE [category |-> "skill", knockout_type |-> "none",
                    confidence |-> 0, detection_method |-> "none"]

\* The returned dict; a key the code leaves out reads as create_keyword_result
\* and its callers read it: knockout_type None ("none"), confidence 0.
categorize_keyword(keyword, role_weight) ==
    IF is_soft_skill(keyword)
    THEN [category |-> "skill", knockout_type |-> "none", confidence |-> 0,
          detection_method |-> "none"]
    ELSE LET years_result == detect_years_knockout(keyword) IN
         IF years_result.is_knockout
         THEN [category |-> "knockout",
               knockout_type |-> years_result.knockout_type,
               confidence |-> years_based_confidence,
               detection_method |-> "years_based"]
         ELSE LET knockout_confidence ==
                      calculate_knockout_confidence(keyword, role_weight) IN
              IF knockout_confidence >= confidence_threshold
              THEN [category |-> "knockout",
                    knockout_type |-> IF is_preferred_requirement(keyword)
                                      THEN "preferred" ELSE "required",
                    confidence |-> knockout_confidence,
                    detection_method |-> "pattern_based"]
              ELSE [category |-> "skill", knockout_type |-> "none",
                    confidence |-> 0, detection_method |-> "none"]


(***************************************************************************)
(* kw_rank/core/scoring.py                                                 *)
(***************************************************************************)
\* ScoringWeights, in thousandths
scoring_tfidf == 550
scoring_section == 250
scoring_role == 200

\* section boosts, in thousandths
boost_requirements == 800
boost_years_experience == 900

\* multipliers, in tenths
compound_product_management == 13
compound_strategy == 11
compound_one_word == 10
compound_two_words == 13
compound_three_words == 15
buzzword_penalty == 7
title_boost == 12

\* The words (split on blanks) of each token.
WordCount(token) ==
    IF token \in {"5+ years", "five years", "bachelor's degree",
                  "computer science", "product management"} THEN 2 ELSE 1

RECURSIVE word_count(_)
word_count(text) ==
    IF text = <<>> THEN 0 ELSE WordCount(Head(text)) + word_count(Tail(text))

\* The posting is modelled by the keyword texts it mentions (once each, in its
\* requirements section).
mentions(job, text) == text \in job

distinct_texts(kws) == {kws[i].text : i \in 1..Len(kws)}

\* TfidfVectorizer over one document with the keyword texts as vocabulary: the
\* L2-normalised term counts, 1/sqrt(number of mentioned terms), to 0.02.
vectorizer_value(n) ==
    CASE n <= 1 -> 1000 [] n = 2 -> 700 [] n = 3 -> 580 [] OTHER -> 500

\* A variant of the fallback without the cap at 1.0, used to test the
\* properties.
fallback_score_uncapped(count) == count * 100

\* min(count / 10.0, 1.0), in thousandths
fallback_score(count) == Min(count * 100, 1000)

\* job_text.lower().count(text.lower()) for a posting that mentions a text once
occurrences_in(job, text) == IF mentions(job, text) THEN 1 ELSE 0

\* the fallback of the except branch for one keyword
fallback_value(job, text) == fallback_score(occurrences_in(job, text))

\* A vocabulary that is empty or holds a term twice makes fit_transform raise.
vectorizer_raises(kws) ==
    kws = <<>> \/ Cardinality(distinct_texts(kws)) < Len(kws)

\* The tfidf of a keyword text (the dict tfidf_scores read at that text).
calculate_tfidf_scores(kws, job, text) ==
    IF vectorizer_raises(kws) THEN fallback_value(job, text)
    ELSE IF mentions(job, text)
         THEN vectorizer_value(Cardinality({t \in distinct_texts(kws) : mentions(job, t)}))
         ELSE 0

get_role_weight(role) ==
    IF role = "core" THEN role_core
    ELSE IF role = "important" THEN role_important
    ELSE role_culture

\* A variant of calculate_base_score in which the section boost is
\* subtracted, used to test the properties.
calculate_base_score_less_section(tfidf_score, section_score, role_score) ==
    scoring_tfidf * tfidf_score - scoring_section * section_score
    + scoring_role * role_score

\* base score in millionths
calculate_base_score(tfidf_score, section_score, role_score) ==
    scoring_tfidf * tfidf_score + scoring_section * section_score
    + scoring_role * role_score

calculate_section_boost(job, keyword) ==
    LET in_line == IF mentions(job, keyword) THEN boost_requirements ELSE 0
    IN  IF HasToken(keyword, {"5+ years", "five years", "experience"})
        THEN IF in_line > boost_years_experience THEN in_line
             ELSE boost_years_experience
        ELSE in_line

is_buzzword(keyword_text) == keyword_text = <<"strategy">>

calculate_compound_boost(keyword_text) ==
    IF HasToken(keyword_text, {"product management"}) THEN compound_product_management
    ELSE IF HasToken(keyword_text, {"strategy"}) THEN compound_strategy
    ELSE IF word_count(keyword_text) = 1 THEN compound_one_word
    ELSE IF word_count(keyword_text) = 2 THEN compound_two_words
    ELSE compound_three_words

\* job_title and is_job_title_keyword(keyword_text, job_title) for the
\* postings of the pipeline: their title line neither contains a text over
\* Tokens nor is contained in one.
is_job_title_keyword(job, keyword_text) == FALSE

\* enhanced score in hundred-millionths (millionths times the title and the
\* compound multipliers in tenths).  title_keyword is the outcome of the job
\* title test.  No text over Tokens is in executive_vocabulary or
\* executive_buzzwords: the executive factor is 1.
apply_enhancements(base_score, keyword_text, title_keyword) ==
    base_score * (IF title_keyword THEN title_boost ELSE 10)
               * calculate_compound_boost(keyword_text)

\* python round(x, 3) of num / den thousandths.  An exact tie is rounded to
\* even here; in the float arithmetic of the code a tie falls to either side.
round3(num, den) ==
    LET q == num \div den
        r == num % den
    IN  IF 2 * r > den \/ (2 * r = den /\ q % 2 = 1) THEN q + 1 ELSE q

\* A variant of apply_buzzword_filtering that dampens a buzzword in drop mode
\* too, used to test the properties.
apply_buzzword_filtering_dampens(enhanced_score, keyword_text, drop_buzz) ==
    LET is_buzz == is_buzzword(keyword_text) IN
    IF is_buzz
    THEN [dropped |-> FALSE, is_buzz |-> is_buzz,
          score |-> round3(enhanced_score * buzzword_penalty, 1000000)]
    ELSE [dropped |-> FALSE, is_buzz |-> is_buzz,
          score |-> round3(enhanced_score, 100000)]

\* <<dropped, final score in thousandths, is_buzz>>
apply_buzzword_filtering(enhanced_score, keyword_text, drop_buzz) ==
    LET is_buzz == is_buzzword(keyword_text) IN
    IF is_buzz /\ drop_buzz THEN [dropped |-> TRUE, score |-> 0, is_buzz |-> is_buzz]
    ELSE IF is_buzz
         THEN [dropped |-> FALSE, is_buzz |-> is_buzz,
               score |-> round3(enhanced_score * buzzword_penalty, 1000000)]
         ELSE [dropped |-> FALSE, is_buzz |-> is_buzz,
               score |-> round3(enhanced_score, 100000)]

\* aliases |-> <<>> stands for the absent key, which every reader takes as [].
create_keyword_result(keyword_text, tfidf_score, section_score, role_score, final_score, is_buzz, categorization) ==
    [kw |-> keyword_text, tfidf |-> tfidf_score, section |-> section_score,
     role |-> role_score, score |-> final_score, is_buzzword |-> is_buzz,
     category |-> categorization.category,
     knockout_type |-> categorization.knockout_type,
     knockout_confidence |-> categorization.confidence,
     aliases |-> <<>>]

\* The scores score_single_keyword computes from the three components: the
\* base score, the enhanced score and the outcome of the buzzword filter.
composite_score(tfidf_score, section_score, role_score, kw_text, title_keyword, drop_buzz) ==
    LET base_score == calculate_base_score(tfidf_score, section_score, role_score)
        enhanced_score == apply_enhancements(base_score, kw_text, title_keyword)
    IN  [base |-> base_score, enhanced |-> enhanced_score,
         final |-> apply_buzzword_filtering(enhanced_score, kw_text, drop_buzz)]

\* The result dict of one keyword; dropped |-> TRUE stands for None.
score_single_keyword(keyword, kws, job, drop_buzz) ==
    LET kw_text == keyword.text
        tfidf_score == calculate_tfidf_scores(kws, job, kw_text)
        section_score == calculate_section_boost(job, kw_text)
        role_score == get_role_weight(keyword.role)
        final == composite_score(tfidf_score, section_score, role_score, kw_text,
                                 is_job_title_keyword(job, kw_text), drop_buzz).final
    IN  IF final.dropped
        THEN [dropped |-> TRUE]     \* return None, before categorize_keyword
        ELSE [dropped |-> FALSE,
              result |-> create_keyword_result(kw_text, tfidf_score, section_score,
                             role_score, final.score, final.is_buzz,
                             categorize_keyword(kw_text, role_score))]

score_key(r) == <<-r.score>>

rank_keywords(kws, job, drop_buzz) ==
    LET scored == [i \in 1..Len(kws) |-> score_single_keyword(kws[i], kws, job, drop_buzz)]
        kept == Filter(scored, LAMBDA x : ~x.dropped)
    IN  SortedBy([i \in 1..Len(kept) |-> kept[i].result], score_key)


(***************************************************************************)
(* enforce_knockout_maximum, kw_rank/core/categorization.py (the modular   *)
(* pipeline) and services/keyword-analysis/kw_rank.py (the monolith).      *)
(***************************************************************************)
is_knockout(r) == r.category = "knockout"
is_skill(r) == r.category = "skill"

reclassify_keeps_confidence(r) ==
    [r EXCEPT !.category = "skill", !.knockout_type = "none"]

reclassify(r) ==
    [r EXCEPT !.category = "skill", !.knockout_type = "none",
              !.knockout_confidence = 0]

\* knockouts.sort(key=lambda x: x['score'], reverse=True)
knockout_sort_modular(knockouts) == SortedBy(knockouts, score_key)

type_priority(r) == IF r.knockout_type = "required" THEN 0 ELSE 1

monolith_sort_key(r) == <<type_priority(r), -r.knockout_confidence, -r.score>>

\* knockouts.sort(key=knockout_sort_key) with (type_priority, -confidence, -score)
knockout_sort_monolith(knockouts) == SortedBy(knockouts, monolith_sort_key)

\* Variants of the definitions below, used to test the properties.
enforce_with_one_more(res, max_knockouts, sorted_knockouts) ==
    LET skills == Filter(res, is_skill)
        kept_knockouts == Take(sorted_knockouts, max_knockouts + 1)
        overflow_knockouts == Drop(sorted_knockouts, max_knockouts + 1)
    IN  IF Len(sorted_knockouts) <= max_knockouts THEN res
        ELSE kept_knockouts \o skills
             \o [i \in 1..Len(overflow_knockouts) |-> reclassify(overflow_knockouts[i])]

enforce_with(res, max_knockouts, sorted_knockouts) ==
    LET skills == Filter(res, is_skill)
        kept_knockouts == Take(sorted_knockouts, max_knockouts)
        overflow_knockouts == Drop(sorted_knockouts, max_knockouts)
    IN  IF Len(sorted_knockouts) <= max_knockouts THEN res
        ELSE kept_knockouts \o skills
             \o [i \in 1..Len(overflow_knockouts) |-> reclassify(overflow_knockouts[i])]

enforce_knockout_maximum(res, max_knockouts) ==
    enforce_with(res, max_knockouts, knockout_sort_modular(Filter(res, is_knockout)))

enforce_knockout_maximum_monolith(res, max_knockouts) ==
    enforce_with(res, max_knockouts, knockout_sort_monolith(Filter(res, is_knockout)))

(***************************************************************************)
(* services/keyword-analysis/kw_rank/main.py: apply_degree_guardrail       *)
(***************************************************************************)
degree_pattern == "\\b(degree|bachelor|master|mba|phd|computer\\s+science)\\b"

guardrail_demotes(item) ==
    /\ item.category = "knockout"
    /\ item.tfidf = 0
    /\ re_search(degree_pattern, item.kw)

apply_degree_guardrail_skipped(res) == res

apply_degree_guardrail(res) ==
    [i \in 1..Len(res) |->
        IF guardrail_demotes(res[i]) THEN reclassify(res[i]) ELSE res[i]]

(***************************************************************************)
(* services/keyword-analysis/kw_rank/core/clustering.py                    *)
(***************************************************************************)
\* ClusteringConfig.median_multiplier (1.2), in tenths
median_multiplier == 12

is_experience_keyword(keyword_text) ==
    Adjacent(keyword_text, {"5+ years"}, {"experience"})

priority_key(r) ==
    << IF is_experience_keyword(r.kw) THEN -1 ELSE 0, -r.score >>

\* A variant of select_canonical_keyword that orders by score alone, used to
\* test the properties.
select_canonical_keyword_by_score(cluster_keywords) == SortedBy(cluster_keywords, score_key)

\* cluster_keywords.sort(key=priority_key, reverse=True); cluster_keywords[0]
select_canonical_keyword(cluster_keywords) == SortedBy(cluster_keywords, priority_key)

\* The labels in the order of their first occurrence (the insertion order of
\* the dict clusters).
RECURSIVE label_order(_, _)
label_order(labels, seen) ==
    IF labels = <<>> THEN <<>>
    ELSE IF Head(labels) \in seen THEN label_order(Tail(labels), seen)
         ELSE <<Head(labels)>> \o label_order(Tail(labels), seen \cup {Head(labels)})

\* clusters[label]: the keywords of that label, in input order
cluster_of(ranked, labels, label) ==
    LET idx == Filter([i \in 1..Len(ranked) |-> i], LAMBDA i : labels[i] = label)
    IN  [k \in 1..Len(idx) |-> ranked[idx[k]]]

group_keywords_by_cluster(ranked, labels) ==
    LET order == label_order(labels, {})
    IN  [c \in 1..Len(order) |-> cluster_of(ranked, labels, order[c])]

with_aliases(r, aliases) == [r EXCEPT !.aliases = aliases]

canonical_of(cluster_keywords) ==
    LET sorted == select_canonical_keyword(cluster_keywords)
        canonical == sorted[1]
        others == Filter(sorted, LAMBDA k : k.kw # canonical.kw)
    IN  with_aliases(canonical, [i \in 1..Len(others) |-> others[i].kw])

create_canonical_keywords(clusters) ==
    [c \in 1..Len(clusters) |-> canonical_of(clusters[c])]

\* labels is what perform_clustering returns for the embeddings of the texts.
\* With at most one keyword the list is returned as it is.
cluster_aliases(ranked, labels) ==
    IF Len(ranked) <= 1 THEN ranked
    ELSE create_canonical_keywords(group_keywords_by_cluster(ranked, labels))

\* The label vectors perform_clustering can return for ranked: one label per
\* keyword, equal texts (equal embeddings, distance 0) in one cluster; labels
\* are named in order of first occurrence.
Labellings(ranked) ==
    {l \in [1..Len(ranked) -> 1..Len(ranked)] :
        /\ \A i \in 1..Len(ranked) :
              l[i] <= 1 + Cardinality({l[j] : j \in 1..(i - 1)})
        /\ \A i, j \in 1..Len(ranked) : ranked[i].kw = ranked[j].kw => l[i] = l[j]}

\* twice np.median(scores): the middle score, or the sum of the two middle ones
median_twice(scores) ==
    LET sorted == SortedBy(scores, LAMBDA x : <<x>>)
        n == Len(scores)
    IN  IF n % 2 = 1 THEN 2 * sorted[(n + 1) \div 2]
        ELSE sorted[n \div 2] + sorted[n \div 2 + 1]

\* kw['score'] >= median_score * median_multiplier, both sides times 20
at_or_above_threshold(score, scores, multiplier) ==
    20 * score >= multiplier * median_twice(scores)

\* kw['score'] > median_multiplier * median_score (the monolith)
above_threshold_strict(score, scores, multiplier) ==
    20 * score > multiplier * median_twice(scores)

\* A variant of trim_by_median without the floor on the count of kept
\* keywords, used to test the properties.
trim_by_median_no_floor(canonical, multiplier, min_keywords) ==
    LET scores == [i \in 1..Len(canonical) |-> canonical[i].score]
    IN  IF Len(canonical) <= min_keywords THEN canonical
        ELSE Filter(canonical, LAMBDA k : at_or_above_threshold(k.score, scores, multiplier))

trim_by_median(canonical, multiplier, min_keywords) ==
    LET scores == [i \in 1..Len(canonical) |-> canonical[i].score]
        above_threshold ==
            Filter(canonical, LAMBDA k : at_or_above_threshold(k.score, scores, multiplier))
    IN  IF Len(canonical) <= min_keywords THEN canonical
        ELSE IF Len(above_threshold) < min_keywords
             THEN Take(SortedBy(canonical, score_key), min_keywords)
             ELSE above_threshold

trim_by_median_monolith(canonical, multiplier, min_keywords) ==
    LET scores == [i \in 1..Len(canonical) |-> canonical[i].score]
        filtered_keywords ==
            Filter(canonical, LAMBDA k : above_threshold_strict(k.score, scores, multiplier))
    IN  IF Len(canonical) <= min_keywords THEN canonical
        ELSE IF Len(filtered_keywords) < min_keywords
             THEN Take(SortedBy(canonical, score_key), min_keywords)
             ELSE filtered_keywords

\* main.py, process_clustering_and_trimming: the knockouts are set aside, the
\* skills alone are clustered (labels: one per skill) and trimmed.
clustering_and_trimming(res, labels, min_keywords) ==
    LET clustered == cluster_aliases(Filter(res, is_skill), labels)
    IN  [canonical_keywords |-> Filter(res, is_knockout) \o clustered,
         knockout_keywords |-> Filter(res, is_knockout),
         trimmed_skills |-> trim_by_median(clustered, median_multiplier, min_keywords)]

\* src/kw_rank.py, main: all results are clustered (labels: one per result),
\* then the canonical entries are separated by category and the skills trimmed.
clustering_and_trimming_monolith(res, labels, min_keywords) ==
    LET canonical == cluster_aliases(res, labels)
    IN  [canonical_keywords |-> canonical,
         knockout_keywords |-> Filter(canonical, is_knockout),
         trimmed_skills |->
            trim_by_median_monolith(Filter(canonical, is_skill), median_multiplier,
                                    min_keywords)]

(***************************************************************************)
(* main.py: select_top_results                                             *)
(***************************************************************************)
\* A variant of knockout_sort_key without the type priority, used to test
\* the properties.
knockout_sort_key_score_only(r) == <<-r.score>>

knockout_sort_key(r) == <<type_priority(r), -r.score>>

select_top_skills(trimmed, top) == Take(SortedBy(trimmed, score_key), top)

select_knockout_requirements(knockouts) == SortedBy(knockouts, knockout_sort_key)


(***************************************************************************)
(* Configuration.  A configuration is described by its three composite-    *)
(* score weights (thousandths) and by whether all its patterns compile.    *)
(***************************************************************************)
\* The asserts on the weights and the re.compile of every pattern; TRUE when
\* none of them raises.
validate_config(config) ==
    /\ 0 < config.tfidf /\ config.tfidf <= 1000
    /\ 0 < config.section /\ config.section <= 1000
    /\ 0 < config.role /\ config.role <= 1000
    /\ config.tfidf + config.section + config.role <= 1000
    /\ config.patterns_compile

\* What importing an entry point does with the configuration: kw_rank.py
\* calls validate_config(get_config()) at import, and an AssertionError or
\* re.error ends the process there; kw_rank_modular.py and kw_rank/main.py
\* call get_config() only.
startup(entry, config) ==
    IF entry = "monolith"
    THEN [aborted |-> ~validate_config(config)]
    ELSE [aborted |-> FALSE]

(***************************************************************************)
(* Injection points.  A resume is the list of its matchable content units; *)
(* what the sentence model says of a keyword and the units is an input:    *)
(* the cosine similarities (thousandths), or that cosine_similarity raises.*)
(***************************************************************************)
\* np.argsort(similarities)[-3:]
top_matches == 3

\* np.zeros(n)
zeros(n) == [i \in 1..n |-> 0]

\* The keyword is encoded outside the try; inside it, a failure of
\* cosine_similarity is answered with a vector of zeros.
compute_keyword_similarities(keyword, n) ==
    IF keyword.cosine_raises THEN zeros(n) ELSE keyword.similarities

\* np.argsort: the indices in ascending order of similarity (for arrays this
\* short numpy sorts by insertion, so equal values keep their index order).
argsort(similarities) ==
    SortedBy([i \in 1..Len(similarities) |-> i], LAMBDA i : <<similarities[i]>>)

\* np.argsort(similarities)[-3:][::-1]
top_indices(similarities) ==
    LET order == argsort(similarities)
        k == Min(top_matches, Len(order))
    IN  [j \in 1..k |-> order[Len(order) + 1 - j]]

create_injection_point(idx, similarity) ==
    [location |-> idx, similarity |-> similarity]

\* The body of the loop over the keywords: keyword['injection_points'] = ...
with_injection_points(keyword, n) ==
    LET similarities == compute_keyword_similarities(keyword, n)
        top == top_indices(similarities)
    IN  [kw |-> keyword.kw,
         injection_points |->
            [j \in 1..Len(top) |-> create_injection_point(top[j], similarities[top[j]])]]

\* classify_match.  Texts are sequences of lower-case words; `a in b` on the
\* strings is taken as: a is a run of consecutive words of b, and, for one
\* word, that the word is one of b's.
high_similarity_threshold == 800
similarity_threshold == 700
min_word_length == 3
partial_match_tenths == 7

word_length(word) == IF word = "ai" THEN 2 ELSE 3

\* keyword_lower in content_lower
contains_text(content_text, keyword_text) ==
    \E o \in 0..(Len(content_text) - Len(keyword_text)) :
        SubSeq(content_text, o + 1, o + Len(keyword_text)) = keyword_text

classify_by_similarity(similarity_score) ==
    IF similarity_score >= high_similarity_threshold THEN "already contains keyword"
    ELSE IF similarity_score >= similarity_threshold THEN "may need short phrase"
    ELSE "suggest adding new bullet"

\* A variant of classify_match without the test on the share of keyword
\* words present, used to test the properties.
classify_match_exact_only(content_text, keyword_text, similarity_score) ==
    IF contains_text(content_text, keyword_text) THEN "already contains keyword"
    ELSE classify_by_similarity(similarity_score)

classify_match(content_text, keyword_text, similarity_score) ==
    LET keyword_words == Filter(keyword_text, LAMBDA w : word_length(w) >= min_word_length)
        matches == Len(Filter(keyword_words, LAMBDA w : w \in Range(content_text)))
    IN  IF contains_text(content_text, keyword_text) THEN "already contains keyword"
        ELSE IF keyword_words # <<>> /\ 10 * matches >= partial_match_tenths * Len(keyword_words)
             THEN "already contains keyword"
             ELSE classify_by_similarity(similarity_score)

\* A keyword that was not given the key 'injection_points' (the exporters read
\* a missing key as an empty list).
without_injection_points(keyword) == [kw |-> keyword.kw, injection_points |-> <<>>]

\* model.encode([kw_text], ...) of one keyword raises (the call is outside
\* the try of the similarity computation).  Keywords that do not say so
\* encode normally.
encode_raises(keyword) ==
    "encode_raises" \in DOMAIN keyword /\ keyword.encode_raises

\* src/kw_rank.py: content, model and embeddings are locals of the function.
\* The loop assigns keyword['injection_points'] to the caller's dicts one
\* keyword at a time; an exception in the loop leaves the keywords before it
\* with their injection points.
find_injection_points_monolith(n, kws) ==
    IF n = 0
    THEN [raised |-> FALSE,
          keywords |-> [i \in 1..Len(kws) |-> without_injection_points(kws[i])]]
    ELSE LET failing == {i \in 1..Len(kws) : encode_raises(kws[i])}
             first == IF failing = {} THEN Len(kws) + 1
                      ELSE CHOOSE i \in failing : \A j \in failing : i <= j
         IN  [raised |-> failing # {},
              keywords |-> [i \in 1..Len(kws) |->
                              IF i < first THEN with_injection_points(kws[i], n)
                              ELSE without_injection_points(kws[i])]]

\* kw_rank/core/injection.py: with content to match, encode_content_embeddings
\* is called first and reads `content`, a local of prepare_resume_content and
\* of find_injection_points that is not in its scope: NameError, before the
\* loop over the keywords.
find_injection_points(n, kws) ==
    IF n = 0
    THEN [raised |-> FALSE,
          keywords |-> [i \in 1..Len(kws) |-> without_injection_points(kws[i])]]
    ELSE [raised |-> TRUE,
          keywords |-> [i \in 1..Len(kws) |-> without_injection_points(kws[i])]]

\* process_resume_injection on the two lists of a run that was given --resume:
\* a resume that cannot be read, or an exception of find_injection_points, is
\* answered with the warning 'Proceeding without sentence matching...' and
\* the lists are returned.  find_injection_points works on the dicts of the
\* two lists and keeps their order and categories, so the lists returned hold
\* the keywords as the call left them, with or without an exception.
resume_injection(impl, resume_file, n, knockouts, skills) ==
    LET all_keywords == knockouts \o skills
        untouched == [i \in 1..Len(all_keywords) |->
                         without_injection_points(all_keywords[i])]
        found == IF resume_file # "ok" THEN [raised |-> TRUE, keywords |-> untouched]
                 ELSE IF impl = "modular" THEN find_injection_points(n, all_keywords)
                 ELSE find_injection_points_monolith(n, all_keywords)
    IN  [warned |-> found.raised,
         knockout_requirements |-> SubSeq(found.keywords, 1, Len(knockouts)),
         top_skills |-> SubSeq(found.keywords, Len(knockouts) + 1,
                               Len(all_keywords))]

(***************************************************************************)
(* Inputs of a run.                                                        *)
(***************************************************************************)
\* The keyword entries a keywords file is drawn from.
KeywordPool ==
    { [text |-> <<"5+ years", "experience">>, role |-> "core"],
      [text |-> <<"mba", "preferred">>, role |-> "important"],
      [text |-> <<"five years", "computer science">>, role |-> "culture"],
      [text |-> <<"product management">>, role |-> "core"],
      [text |-> <<"strategy">>, role |-> "important"] }

\* Command line (--top, --drop-buzz, --resume given or not) and configuration
\* (max_knockouts, min_keywords) of a run.
Configs ==
    { [top |-> 1, drop_buzz |-> FALSE, max_knockouts |-> 1, min_keywords |-> 1,
       resume |-> TRUE],
      [top |-> 2, drop_buzz |-> TRUE, max_knockouts |-> 2, min_keywords |-> 2,
       resume |-> FALSE],
      [top |-> 2, drop_buzz |-> FALSE, max_knockouts |-> 0, min_keywords |-> 1,
       resume |-> FALSE] }

\* What open() and the validation of load_keywords can find in the keywords
\* file, and open() in the posting file.
KeywordFileStates == {"ok", "missing", "invalid_json", "invalid_format",
                      "not_an_object", "no_text", "no_role"}

JobFileStates == {"ok", "missing"}

\* What open() and json.load find in the resume file.
ResumeFileStates == {"ok", "missing", "invalid_json"}

\* What SentenceTransformer('all-MiniLM-L6-v2'), model.encode and the
\* clustering of the embeddings do: return, or raise.
ModelStates == {"ok", "raises"}

Unread == [keywords_file |-> "unread", job_file |-> "unread",
           resume_file |-> "unread", model |-> "unread"]

NoRuns == <<>>

NoFile == [knockout_requirements |-> <<>>, skills_ranked |-> <<>>, written |-> FALSE]

(***************************************************************************)
(* main(): one action per stage.                                           *)
(***************************************************************************)
MainInit ==
    /\ pc = "start"
    /\ args \in Configs
    /\ keywords = <<>>
    /\ job_text = {}
    /\ results = <<>>
    /\ canonical_keywords = <<>>
    /\ knockout_keywords = <<>>
    /\ clustered_skills = <<>>
    /\ trimmed_skills = <<>>
    /\ knockout_requirements = <<>>
    /\ top_skills = <<>>
    /\ saved = NoFile
    /\ call = [fn |-> "main"]
    /\ ret = "none"
    /\ files = Unread
    /\ exit_status = "running"
    /\ runs = NoRuns

\* A variant of load_input_data that takes a posting it cannot open for an
\* empty one, used to test the properties.
load_input_data_empty_posting ==
    /\ pc = "start"
    /\ \E kf \in KeywordFileStates, jf \in JobFileStates :
         IF kf # "ok"
         THEN /\ files' = [files EXCEPT !.keywords_file = kf]
              /\ jf = "ok"
              /\ exit_status' = "exit_1"
              /\ pc' = "exited"
              /\ UNCHANGED <<keywords, job_text>>
         ELSE /\ files' = [files EXCEPT !.keywords_file = kf, !.job_file = jf]
              /\ \E kws \in SeqsUpTo(KeywordPool, MaxKeywords) :
                   \E job \in SUBSET distinct_texts(kws) :
                      /\ keywords' = kws
                      /\ job_text' = IF jf = "ok" THEN job ELSE {}
              /\ pc' = "process_keywords"
              /\ UNCHANGED exit_status
    /\ UNCHANGED <<args, results, canonical_keywords, knockout_keywords,
                   clustered_skills, trimmed_skills, knockout_requirements,
                   top_skills, saved, call, ret, runs>>

\* A variant of load_input_data that takes an empty keyword list for an
\* invalid file, used to test the properties.
load_input_data_rejects_empty ==
    /\ pc = "start"
    /\ \E kf \in KeywordFileStates, jf \in JobFileStates :
         IF kf # "ok"
         THEN /\ files' = [files EXCEPT !.keywords_file = kf]
              /\ jf = "ok"
              /\ exit_status' = "exit_1"
              /\ pc' = "exited"
              /\ UNCHANGED <<keywords, job_text>>
         ELSE IF jf # "ok"
         THEN /\ files' = [files EXCEPT !.keywords_file = kf, !.job_file = jf]
              /\ exit_status' = "exit_1"
              /\ pc' = "exited"
              /\ UNCHANGED <<keywords, job_text>>
         ELSE /\ files' = [files EXCEPT !.keywords_file = kf, !.job_file = jf]
              /\ \E kws \in SeqsUpTo(KeywordPool, MaxKeywords) :
                   \E job \in SUBSET distinct_texts(kws) :
                      /\ keywords' = kws
                      /\ job_text' = job
                      /\ pc' = IF kws = <<>> THEN "exited" ELSE "process_keywords"
                      /\ exit_status' = IF kws = <<>> THEN "exit_1" ELSE exit_status
    /\ UNCHANGED <<args, results, canonical_keywords, knockout_keywords,
                   clustered_skills, trimmed_skills, knockout_requirements,
                   top_skills, saved, call, ret, runs>>

\* load_keywords, then load_job_posting; either ends the process through
\* ErrorHandler.exit_with_error (sys.exit(1)) on a file it cannot use.
load_input_data ==
    /\ pc = "start"
    /\ \E kf \in KeywordFileStates, jf \in JobFileStates :
         IF kf # "ok"
         THEN /\ files' = [files EXCEPT !.keywords_file = kf]
              /\ jf = "ok"
              /\ exit_status' = "exit_1"
              /\ pc' = "exited"
              /\ UNCHANGED <<keywords, job_text>>
         ELSE IF jf # "ok"
         THEN /\ files' = [files EXCEPT !.keywords_file = kf, !.job_file = jf]
              /\ exit_status' = "exit_1"
              /\ pc' = "exited"
              /\ UNCHANGED <<keywords, job_text>>
         ELSE /\ files' = [files EXCEPT !.keywords_file = kf, !.job_file = jf]
              /\ \E kws \in SeqsUpTo(KeywordPool, MaxKeywords) :
                   \E job \in SUBSET distinct_texts(kws) :
                      /\ keywords' = kws
                      /\ job_text' = job
              /\ pc' = "process_keywords"
              /\ UNCHANGED exit_status
    /\ UNCHANGED <<args, results, canonical_keywords, knockout_keywords,
                   clustered_skills, trimmed_skills, knockout_requirements,
                   top_skills, saved, call, ret, runs>>

process_keywords ==
    /\ pc = "process_keywords"
    /\ results' = rank_keywords(keywords, job_text, args.drop_buzz)
    /\ pc' = "categorize_and_enforce_limits"
    /\ UNCHANGED <<keywords, job_text, args, canonical_keywords,
                   knockout_keywords, clustered_skills, trimmed_skills,
                   knockout_requirements, top_skills, saved, call, ret, process_vars>>

categorize_and_enforce_limits ==
    /\ pc = "categorize_and_enforce_limits"
    /\ results' = enforce_knockout_maximum(results, args.max_knockouts)
    /\ pc' = "apply_degree_guardrail"
    /\ UNCHANGED <<keywords, job_text, args, canonical_keywords,
                   knockout_keywords, clustered_skills, trimmed_skills,
                   knockout_requirements, top_skills, saved, call, ret, process_vars>>

degree_guardrail ==
    /\ pc = "apply_degree_guardrail"
    /\ results' = apply_degree_guardrail(results)
    /\ pc' = "process_clustering_and_trimming"
    /\ UNCHANGED <<keywords, job_text, args, canonical_keywords,
                   knockout_keywords, clustered_skills, trimmed_skills,
                   knockout_requirements, top_skills, saved, call, ret, process_vars>>

\* cluster_aliases loads the model and encodes only for two or more skills,
\* and neither it nor main() catches what the model or the clustering raises:
\* the exception ends the process (traceback, exit status 1).
process_clustering_and_trimming ==
    /\ pc = "process_clustering_and_trimming"
    /\ LET skill_keywords == Filter(results, is_skill) IN
       IF Len(skill_keywords) <= 1
       THEN /\ knockout_keywords' = Filter(results, is_knockout)
            /\ clustered_skills' = skill_keywords
            /\ canonical_keywords' = Filter(results, is_knockout) \o skill_keywords
            /\ trimmed_skills' = trim_by_median(skill_keywords, median_multiplier,
                                                args.min_keywords)
            /\ pc' = "select_top_results"
            /\ UNCHANGED <<files, exit_status>>
       ELSE \E m \in ModelStates :
            /\ files' = [files EXCEPT !.model = m]
            /\ IF m = "raises"
               THEN /\ pc' = "exited"
                    /\ exit_status' = "exit_1"
                    /\ UNCHANGED <<knockout_keywords, clustered_skills,
                                   canonical_keywords, trimmed_skills>>
               ELSE /\ \E labels \in Labellings(skill_keywords) :
                       LET out == clustering_and_trimming(results, labels,
                                                          args.min_keywords)
                       IN  /\ knockout_keywords' = out.knockout_keywords
                           /\ clustered_skills' =
                                 cluster_aliases(skill_keywords, labels)
                           /\ canonical_keywords' = out.canonical_keywords
                           /\ trimmed_skills' = out.trimmed_skills
                    /\ pc' = "select_top_results"
                    /\ UNCHANGED exit_status
    /\ UNCHANGED <<keywords, job_text, args, results, knockout_requirements,
                   top_skills, saved, call, ret, runs>>

select_top_results ==
    /\ pc = "select_top_results"
    /\ top_skills' = select_top_skills(trimmed_skills, args.top)
    /\ knockout_requirements' = select_knockout_requirements(knockout_keywords)
    /\ pc' = "process_resume_injection"
    /\ UNCHANGED <<keywords, job_text, args, results, canonical_keywords,
                   knockout_keywords, clustered_skills, trimmed_skills, saved,
                   call, ret, process_vars>>

\* Without --resume the lists pass through.  With it, every failure (file not
\* found, invalid JSON, any other exception) is caught, a warning is printed
\* and the lists are returned as they were.  A resume that loads reaches
\* find_injection_points, whose encode_content_embeddings reads the name
\* `content` that is bound in no scope it can see: the NameError is caught by
\* the same handler before any keyword was touched.
process_resume_injection ==
    /\ pc = "process_resume_injection"
    /\ IF ~args.resume
       THEN UNCHANGED files
       ELSE \E rf \in ResumeFileStates : files' = [files EXCEPT !.resume_file = rf]
    /\ pc' = "save_and_display_results"
    /\ UNCHANGED <<keywords, job_text, args, results, canonical_keywords,
                   knockout_keywords, clustered_skills, trimmed_skills,
                   knockout_requirements, top_skills, saved, call, ret,
                   exit_status, runs>>

save_and_display_results ==
    /\ pc = "save_and_display_results"
    /\ saved' = [knockout_requirements |-> knockout_requirements,
                 skills_ranked |-> top_skills, written |-> TRUE]
    /\ pc' = "done"
    /\ exit_status' = "exit_0"
    /\ UNCHANGED <<keywords, job_text, args, results, canonical_keywords,
                   knockout_keywords, clustered_skills, trimmed_skills,
                   knockout_requirements, top_skills, call, ret, files, runs>>

MainNext ==
    \/ load_input_data
    \/ process_keywords
    \/ categorize_and_enforce_limits
    \/ degree_guardrail
    \/ process_clustering_and_trimming
    \/ select_top_results
    \/ process_resume_injection
    \/ save_and_display_results



(***************************************************************************)
(* Direct calls of the functions of the pipeline (as the unit tests and    *)
(* the debug scripts make them): the arguments are drawn from bounded sets *)
(* and one action applies the function.                                    *)
(***************************************************************************)
unit_result(kw, tfidf, score, category, knockout_type, confidence) ==
    [kw |-> kw, tfidf |-> tfidf, section |-> 0, role |-> role_core,
     score |-> score, is_buzzword |-> FALSE, category |-> category,
     knockout_type |-> knockout_type, knockout_confidence |-> confidence,
     aliases |-> <<>>]

\* Categorized results given to enforce_knockout_maximum.
EnforceResults ==
    { unit_result(<<"mba">>, 0, sc, "knockout", ty, cf) :
        sc \in {100, 200}, ty \in {"required", "preferred"}, cf \in {6, 8} }
    \cup { unit_result(<<"product management">>, 0, sc, "skill", "none", 0) :
             sc \in {100, 200} }

\* Skills given to cluster_aliases.
ClusterSkills ==
    { unit_result(kw, 0, sc, "skill", "none", 0) :
        kw \in {<<"product management">>, <<"strategy">>,
                <<"5+ years", "experience">>},
        sc \in {100, 200} }

\* Canonical skills given to trim_by_median.
TrimSkills ==
    { unit_result(kw, 0, sc, "skill", "none", 0) :
        kw \in {<<"product management">>, <<"strategy">>},
        sc \in {0, 100, 120, 200} }

\* median_multiplier: 1.0 and the configured 1.2, in tenths
Multipliers == {10, median_multiplier}

RoleWeightValues == {role_core, role_important, role_culture}

\* Component scores and keyword texts given to the scoring functions.
TfidfValues == {0, 500, 1000}

SectionValues == {0, boost_requirements, boost_years_experience}

ScoredTexts == {<<"strategy">>, <<"mba">>, <<"product management">>,
                <<"5+ years", "experience">>}

\* Resumes of 0..MaxContent non-empty content units, and batches of one or
\* two keywords with their similarities to the units.
SimilarityValues == {200, 800}

BatchTexts == <<<<"product management">>, <<"strategy">>>>

InjectionKeywords(i, n) ==
    { [kw |-> BatchTexts[i], similarities |-> v, cosine_raises |-> f] :
        v \in [1..n -> SimilarityValues], f \in BOOLEAN }

\* Keywords given to process_resume_injection: one similarity to every
\* content unit, and whether encoding the keyword raises.
ResumeKeywords(i, n) ==
    { [kw |-> BatchTexts[i], similarities |-> [j \in 1..n |-> v],
       cosine_raises |-> FALSE, encode_raises |-> f] :
        v \in SimilarityValues, f \in BOOLEAN }

Implementations == {"modular", "monolith"}

\* Categorized results given to the clustering stage.
StageResults ==
    { unit_result(<<"mba">>, 0, 100, "knockout", "required", 8),
      unit_result(<<"product management">>, 0, 200, "skill", "none", 0),
      unit_result(<<"strategy">>, 0, 100, "skill", "none", 0) }

\* Knockouts and trimmed skills given to select_top_results, and --top.
SelectKnockouts ==
    { unit_result(<<"mba">>, 0, sc, "knockout", ty, 8) :
        sc \in {100, 200}, ty \in {"required", "preferred"} }

SelectSkills ==
    { unit_result(kw, 0, sc, "skill", "none", 0) :
        kw \in {<<"product management">>, <<"strategy">>}, sc \in {100, 200} }

TopCounts == {0, 1, 2}

\* Content units, keyword texts and similarities given to classify_match.
ClassifyWords == {"product", "management", "ai"}

ClassifyKeywords == SeqsUpTo(ClassifyWords, 2) \ {<<>>}

ClassifyContents == SeqsUpTo(ClassifyWords, 3) \ {<<>>}

ClassifySimilarities == {500, 699, 700, 799, 800}

\* Ranked knockouts given to the two stages categorize_and_enforce_limits and
\* apply_degree_guardrail: a degree and a years requirement, in the posting
\* (tfidf 0.5) or not.
GuardrailResults ==
    { [unit_result(kw, 0, sc, "knockout", "required", 8) EXCEPT !.tfidf = t] :
        kw \in {<<"mba">>, <<"5+ years", "experience">>},
        t \in {0, 500}, sc \in {100, 200} }

\* Configurations given to an entry point: the default weights (0.55, 0.25,
\* 0.2) and others that sum to less, to more, or hold a zero.
StartupConfigs ==
    [tfidf : {0, 300, scoring_tfidf, 600}, section : {scoring_section},
     role : {150, scoring_role}, patterns_compile : BOOLEAN]

\* The calls made: a function name and its arguments.
UnitCall(c) ==
    \/ \E t \in Texts, w \in RoleWeightValues :
         c = [fn |-> "categorize_keyword", keyword |-> t, role_weight |-> w]
    \/ \E t \in Texts, w \in RoleWeightValues :
         c = [fn |-> "calculate_knockout_confidence", keyword |-> t,
              role_weight |-> w]
    \/ \E t \in TfidfValues, b \in SectionValues, w \in RoleWeightValues,
           x \in ScoredTexts, j \in BOOLEAN :
         c = [fn |-> "composite_score", tfidf_score |-> t, section_score |-> b,
              role_score |-> w, kw_text |-> x, title_keyword |-> j]
    \/ \E k \in 0..MaxResults : \E r \in [1..k -> EnforceResults], n \in 0..MaxCap :
         c = [fn |-> "enforce_knockout_maximum", results |-> r,
              max_knockouts |-> n]
    \/ \E k \in 0..MaxResults :
         \E r \in [1..k -> TrimSkills], m \in Multipliers, f \in 0..MaxFloor :
           c = [fn |-> "trim_by_median", canonical_keywords |-> r,
                median_multiplier |-> m, min_keywords |-> f]
    \/ \E k \in 0..MaxResults : \E r \in [1..k -> ClusterSkills] :
         \E l \in Labellings(r) :
           c = [fn |-> "cluster_aliases", ranked_keywords |-> r, labels |-> l]
    \/ \E k \in 0..MaxResults : \E r \in [1..k -> StageResults], f \in 0..MaxFloor :
         \/ \E l \in Labellings(Filter(r, is_skill)) :
              c = [fn |-> "process_clustering_and_trimming", impl |-> "modular",
                   results |-> r, labels |-> l, min_keywords |-> f]
         \/ \E l \in Labellings(r) :
              c = [fn |-> "process_clustering_and_trimming", impl |-> "monolith",
                   results |-> r, labels |-> l, min_keywords |-> f]
    \/ \E n \in 0..MaxCount : c = [fn |-> "fallback_score", count |-> n]
    \/ \E k \in 0..2 : \E r \in [1..k -> GuardrailResults], n \in 0..MaxCap :
         c = [fn |-> "enforce_and_guardrail", results |-> r, max_knockouts |-> n]
    \/ \E x \in ClassifyContents, k \in ClassifyKeywords, v \in ClassifySimilarities :
         c = [fn |-> "classify_match", content_text |-> x, keyword_text |-> k,
              similarity_score |-> v]
    \/ \E k \in 0..2, n \in 0..MaxResults, t \in TopCounts :
         \E ko \in [1..k -> SelectKnockouts], sk \in [1..n -> SelectSkills] :
           c = [fn |-> "select_top_results", knockout_keywords |-> ko,
                trimmed_skills |-> sk, top |-> t]
    \/ \E k \in 0..MaxResults, t \in TopCounts :
         \E r \in [1..k -> TrimSkills], m \in Multipliers, f \in 0..MaxFloor :
           c = [fn |-> "trim_and_select_top_skills", clustered_skills |-> r,
                median_multiplier |-> m, min_keywords |-> f, top |-> t]
    \/ \E n \in 0..MaxContent, impl \in Implementations, rf \in ResumeFileStates :
         \E a \in ResumeKeywords(1, n), b \in ResumeKeywords(2, n) :
           \/ c = [fn |-> "process_resume_injection", impl |-> impl,
                    resume_file |-> rf, content_units |-> n,
                    knockout_requirements |-> <<a>>, top_skills |-> <<b>>]
           \/ c = [fn |-> "process_resume_injection", impl |-> impl,
                    resume_file |-> rf, content_units |-> n,
                    knockout_requirements |-> <<>>, top_skills |-> <<a, b>>]
    \/ \E e \in Implementations, g \in StartupConfigs :
         c = [fn |-> "startup", entry |-> e, config |-> g]
    \/ \E n \in 0..MaxContent, impl \in Implementations :
         \/ \E a \in InjectionKeywords(1, n) :
              c = [fn |-> "find_injection_points", impl |-> impl,
                   content_units |-> n, keywords |-> <<a>>]
         \/ \E a \in InjectionKeywords(1, n), b \in InjectionKeywords(2, n) :
              c = [fn |-> "find_injection_points", impl |-> impl,
                   content_units |-> n, keywords |-> <<a, b>>]

NoArgs == [top |-> 0, drop_buzz |-> FALSE, max_knockouts |-> 0, min_keywords |-> 0,
           resume |-> FALSE]

UnitInit ==
    /\ pc = "call"
    /\ UnitCall(call)
    /\ ret = "none"
    /\ args = NoArgs
    /\ keywords = <<>>
    /\ job_text = {}
    /\ results = <<>>
    /\ canonical_keywords = <<>>
    /\ knockout_keywords = <<>>
    /\ clustered_skills = <<>>
    /\ trimmed_skills = <<>>
    /\ knockout_requirements = <<>>
    /\ top_skills = <<>>
    /\ saved = NoFile
    /\ files = Unread
    /\ exit_status = "running"
    /\ runs = NoRuns

call_categorize_keyword ==
    /\ pc = "call" /\ call.fn = "categorize_keyword"
    /\ ret' = categorize_keyword(call.keyword, call.role_weight)
    /\ pc' = "returned"
    /\ UNCHANGED <<call, keywords, job_text, args, results, canonical_keywords,
                   knockout_keywords, clustered_skills, trimmed_skills,
                   knockout_requirements, top_skills, saved, process_vars>>

call_composite_score ==
    /\ pc = "call" /\ call.fn = "composite_score"
    /\ ret' = composite_score(call.tfidf_score, call.section_score, call.role_score,
                              call.kw_text, call.title_keyword, FALSE)
    /\ pc' = "returned"
    /\ UNCHANGED <<call, keywords, job_text, args, results, canonical_keywords,
                   knockout_keywords, clustered_skills, trimmed_skills,
                   knockout_requirements, top_skills, saved, process_vars>>

call_calculate_knockout_confidence ==
    /\ pc = "call" /\ call.fn = "calculate_knockout_confidence"
    /\ ret' = calculate_knockout_confidence(call.keyword, call.role_weight)
    /\ pc' = "returned"
    /\ UNCHANGED <<call, keywords, job_text, args, results, canonical_keywords,
                   knockout_keywords, clustered_skills, trimmed_skills,
                   knockout_requirements, top_skills, saved, process_vars>>

call_enforce_knockout_maximum ==
    /\ pc = "call" /\ call.fn = "enforce_knockout_maximum"
    /\ ret' = enforce_knockout_maximum(call.results, call.max_knockouts)
    /\ pc' = "returned"
    /\ UNCHANGED <<call, keywords, job_text, args, results, canonical_keywords,
                   knockout_keywords, clustered_skills, trimmed_skills,
                   knockout_requirements, top_skills, saved, process_vars>>

call_trim_by_median ==
    /\ pc = "call" /\ call.fn = "trim_by_median"
    /\ ret' = trim_by_median(call.canonical_keywords, call.median_multiplier,
                             call.min_keywords)
    /\ pc' = "returned"
    /\ UNCHANGED <<call, keywords, job_text, args, results, canonical_keywords,
                   knockout_keywords, clustered_skills, trimmed_skills,
                   knockout_requirements, top_skills, saved, process_vars>>

call_cluster_aliases ==
    /\ pc = "call" /\ call.fn = "cluster_aliases"
    /\ ret' = cluster_aliases(call.ranked_keywords, call.labels)
    /\ pc' = "returned"
    /\ UNCHANGED <<call, keywords, job_text, args, results, canonical_keywords,
                   knockout_keywords, clustered_skills, trimmed_skills,
                   knockout_requirements, top_skills, saved, process_vars>>

call_find_injection_points ==
    /\ pc = "call" /\ call.fn = "find_injection_points"
    /\ ret' = IF call.impl = "modular"
              THEN find_injection_points(call.content_units, call.keywords)
              ELSE find_injection_points_monolith(call.content_units, call.keywords)
    /\ pc' = "returned"
    /\ UNCHANGED <<call, keywords, job_text, args, results, canonical_keywords,
                   knockout_keywords, clustered_skills, trimmed_skills,
                   knockout_requirements, top_skills, saved, process_vars>>

call_startup ==
    /\ pc = "call" /\ call.fn = "startup"
    /\ ret' = startup(call.entry, call.config)
    /\ pc' = "returned"
    /\ UNCHANGED <<call, keywords, job_text, args, results, canonical_keywords,
                   knockout_keywords, clustered_skills, trimmed_skills,
                   knockout_requirements, top_skills, saved, process_vars>>

call_process_clustering_and_trimming ==
    /\ pc = "call" /\ call.fn = "process_clustering_and_trimming"
    /\ ret' = IF call.impl = "modular"
              THEN clustering_and_trimming(call.results, call.labels,
                                           call.min_keywords)
              ELSE clustering_and_trimming_monolith(call.results, call.labels,
                                                    call.min_keywords)
    /\ pc' = "returned"
    /\ UNCHANGED <<call, keywords, job_text, args, results, canonical_keywords,
                   knockout_keywords, clustered_skills, trimmed_skills,
                   knockout_requirements, top_skills, saved, process_vars>>

call_fallback_score ==
    /\ pc = "call" /\ call.fn = "fallback_score"
    /\ ret' = fallback_score(call.count)
    /\ pc' = "returned"
    /\ UNCHANGED <<call, keywords, job_text, args, results, canonical_keywords,
                   knockout_keywords, clustered_skills, trimmed_skills,
                   knockout_requirements, top_skills, saved, process_vars>>

call_select_top_results ==
    /\ pc = "call" /\ call.fn = "select_top_results"
    /\ ret' = [knockout_requirements |->
                  select_knockout_requirements(call.knockout_keywords),
               top_skills |-> select_top_skills(call.trimmed_skills, call.top)]
    /\ pc' = "returned"
    /\ UNCHANGED <<call, keywords, job_text, args, results, canonical_keywords,
                   knockout_keywords, clustered_skills, trimmed_skills,
                   knockout_requirements, top_skills, saved, process_vars>>

\* trimmed_skills = trim_by_median(clustered_skills) of
\* process_clustering_and_trimming, then the top skills of select_top_results.
call_trim_and_select_top_skills ==
    /\ pc = "call" /\ call.fn = "trim_and_select_top_skills"
    /\ ret' = select_top_skills(
                  trim_by_median(call.clustered_skills, call.median_multiplier,
                                 call.min_keywords),
                  call.top)
    /\ pc' = "returned"
    /\ UNCHANGED <<call, keywords, job_text, args, results, canonical_keywords,
                   knockout_keywords, clustered_skills, trimmed_skills,
                   knockout_requirements, top_skills, saved, process_vars>>

call_process_resume_injection ==
    /\ pc = "call" /\ call.fn = "process_resume_injection"
    /\ ret' = resume_injection(call.impl, call.resume_file, call.content_units,
                               call.knockout_requirements, call.top_skills)
    /\ pc' = "returned"
    /\ UNCHANGED <<call, keywords, job_text, args, results, canonical_keywords,
                   knockout_keywords, clustered_skills, trimmed_skills,
                   knockout_requirements, top_skills, saved, process_vars>>

call_classify_match ==
    /\ pc = "call" /\ call.fn = "classify_match"
    /\ ret' = classify_match(call.content_text, call.keyword_text,
                             call.similarity_score)
    /\ pc' = "returned"
    /\ UNCHANGED <<call, keywords, job_text, args, results, canonical_keywords,
                   knockout_keywords, clustered_skills, trimmed_skills,
                   knockout_requirements, top_skills, saved, process_vars>>

\* main(): results = categorize_and_enforce_limits(results), then
\* results = apply_degree_guardrail(results)
call_enforce_and_guardrail ==
    /\ pc = "call" /\ call.fn = "enforce_and_guardrail"
    /\ ret' = apply_degree_guardrail(
                 enforce_knockout_maximum(call.results, call.max_knockouts))
    /\ pc' = "returned"
    /\ UNCHANGED <<call, keywords, job_text, args, results, canonical_keywords,
                   knockout_keywords, clustered_skills, trimmed_skills,
                   knockout_requirements, top_skills, saved, process_vars>>

UnitNext ==
    \/ call_categorize_keyword
    \/ call_composite_score
    \/ call_calculate_knockout_confidence
    \/ call_enforce_knockout_maximum
    \/ call_trim_by_median
    \/ call_cluster_aliases
    \/ call_find_injection_points
    \/ call_startup
    \/ call_fallback_score
    \/ call_enforce_and_guardrail
    \/ call_classify_match
    \/ call_select_top_results
    \/ call_trim_and_select_top_skills
    \/ call_process_resume_injection
    \/ call_process_clustering_and_trimming

(***************************************************************************)
(* Two runs in one process.  get_config() hands every caller the one       *)
(* module-level DEFAULT_CONFIG, whose dataclasses are not frozen, and the  *)
(* stages read it at call time (enforce_knockout_maximum is called by      *)
(* categorize_and_enforce_limits without a maximum and reads               *)
(* config.knockouts.max_knockouts).  A run that wants its own maximum      *)
(* assigns it to the shared object, then enforces.                         *)
(***************************************************************************)
\* KnockoutConfig.max_knockouts as constructed
default_max_knockouts == 5

RunIds == {1, 2}

\* Results given to both runs: knockouts only.
SharedResults ==
    { unit_result(<<"mba">>, 0, sc, "knockout", "required", 8) : sc \in {100, 200} }

SharedInit ==
    /\ pc = "runs"
    /\ call = [fn |-> "two_runs"]
    /\ \E w \in [RunIds -> 0..MaxCap], r \in [1..2 -> SharedResults] :
         runs = [config |-> [max_knockouts |-> default_max_knockouts],
                 run |-> [i \in RunIds |->
                            [wants |-> w[i], at |-> "configure", results |-> r,
                             enforced |-> <<>>]]]
    /\ ret = "none"
    /\ args = NoArgs
    /\ keywords = <<>>
    /\ job_text = {}
    /\ results = <<>>
    /\ canonical_keywords = <<>>
    /\ knockout_keywords = <<>>
    /\ clustered_skills = <<>>
    /\ trimmed_skills = <<>>
    /\ knockout_requirements = <<>>
    /\ top_skills = <<>>
    /\ saved = NoFile
    /\ files = Unread
    /\ exit_status = "running"

\* config.knockouts.max_knockouts = n
set_max_knockouts(i) ==
    /\ pc = "runs"
    /\ runs.run[i].at = "configure"
    /\ runs' = [runs EXCEPT !.config.max_knockouts = runs.run[i].wants,
                            !.run[i].at = "enforce"]
    /\ UNCHANGED <<pc, call, ret, pipeline_vars, files, exit_status>>

\* categorize_and_enforce_limits: enforce_knockout_maximum(results)
run_categorize_and_enforce_limits(i) ==
    /\ pc = "runs"
    /\ runs.run[i].at = "enforce"
    /\ runs' = [runs EXCEPT
                  !.run[i].enforced =
                      enforce_knockout_maximum(runs.run[i].results,
                                               runs.config.max_knockouts),
                  !.run[i].at = "done"]
    /\ UNCHANGED <<pc, call, ret, pipeline_vars, files, exit_status>>

SharedNext ==
    \/ \E i \in RunIds : set_max_knockouts(i)
    \/ \E i \in RunIds : run_categorize_and_enforce_limits(i)

(***************************************************************************)
(* The program: a run of main(), a direct call of one of its functions, or *)
(* two runs in one process.                                                *)
(***************************************************************************)
Init == MainInit \/ UnitInit \/ SharedInit

Next == MainNext \/ UnitNext \/ SharedNext

Spec == Init /\ [][Next]_vars

returned(fn) == pc = "returned" /\ call.fn = fn


(***************************************************************************)
(* Properties.                                                             *)
(***************************************************************************)
Permutations_of(n) ==
    { p \in [1..n -> 1..n] : \A i, j \in 1..n : p[i] = p[j] => i = j }

knockouts_of(res) == Filter(res, is_knockout)

overflows(res, max_knockouts) == Len(knockouts_of(res)) > max_knockouts

\* The results the pipeline gave to enforce_knockout_maximum.
ranked_results == rank_keywords(keywords, job_text, args.drop_buzz)

after_enforcement ==
    pc \in {"apply_degree_guardrail", "process_clustering_and_trimming",
            "select_top_results", "process_resume_injection",
            "save_and_display_results", "done"}

after_guardrail ==
    pc \in {"process_clustering_and_trimming", "select_top_results",
            "process_resume_injection", "save_and_display_results", "done"}

\* C1: enforce_knockout_maximum returns at most max_knockouts knockout
\* entries for every result list and every cap >= 0, and the knockout list
\* written to the output file never holds more than max_knockouts entries.
C1_KnockoutCap ==
    /\ returned("enforce_knockout_maximum") =>
          Len(knockouts_of(ret)) <= call.max_knockouts
    /\ (call.fn = "main" /\ after_enforcement) =>
          /\ Len(knockouts_of(results)) <= args.max_knockouts
          /\ Len(knockout_keywords) <= args.max_knockouts
          /\ Len(knockout_requirements) <= args.max_knockouts
    /\ saved.written =>
          Len(saved.knockout_requirements) <= args.max_knockouts

\* A run whose ranked results held more knockouts than the cap, and whose
\* written file holds exactly the cap.
C1_Witness ==
    /\ saved.written
    /\ args.max_knockouts > 0
    /\ overflows(ranked_results, args.max_knockouts)
    /\ Len(saved.knockout_requirements) = args.max_knockouts

\* C2: when the knockouts exceed the cap, enforce_knockout_maximum keeps
\* exactly the first max_knockouts of them in the order required before
\* preferred, then higher confidence, then higher score, and reclassifies
\* the others; a required knockout is never reclassified while a preferred
\* one is kept.
C2_KeepsFirstInOrder ==
    (returned("enforce_knockout_maximum")
        /\ overflows(call.results, call.max_knockouts)) =>
       LET kept == knockouts_of(ret)
           ordered == knockout_sort_monolith(knockouts_of(call.results))
           required(res) == Filter(res, LAMBDA r : r.knockout_type = "required")
       IN  /\ Len(kept) = call.max_knockouts
           /\ \A i \in 1..Len(kept) :
                 monolith_sort_key(kept[i]) = monolith_sort_key(ordered[i])
           /\ (\E i \in 1..Len(kept) : kept[i].knockout_type = "preferred") =>
                 Len(required(kept)) = Len(required(knockouts_of(call.results)))

\* A call that reclassified a required knockout and kept a preferred one.
C2_Witness ==
    /\ returned("enforce_knockout_maximum")
    /\ overflows(call.results, call.max_knockouts)
    /\ \E i \in 1..Len(ret) :
          is_knockout(ret[i]) /\ ret[i].knockout_type = "preferred"
    /\ Len(Filter(knockouts_of(ret), LAMBDA r : r.knockout_type = "required"))
          < Len(Filter(call.results, LAMBDA r : r.knockout_type = "required"))

\* C3: enforce_knockout_maximum returns the entries it was given, none
\* added, lost or duplicated: a reclassified entry keeps its keyword text
\* and score (and every other field) and ends as a skill with confidence 0
\* and no knockout type; kept knockouts and skills are unchanged.
C3_EnforceFrame ==
    returned("enforce_knockout_maximum") =>
       /\ Len(ret) = Len(call.results)
       /\ \E p \in Permutations_of(Len(ret)) :
             \A i \in 1..Len(ret) :
                LET before == call.results[p[i]]
                    after == ret[i]
                IN  \/ after = before
                    \/ /\ is_knockout(before)
                       /\ after.kw = before.kw
                       /\ after.score = before.score
                       /\ after = [before EXCEPT !.category = "skill",
                                                 !.knockout_type = "none",
                                                 !.knockout_confidence = 0]
       /\ Len(Filter(ret, LAMBDA r : r \notin Range(call.results)))
             = IF overflows(call.results, call.max_knockouts)
               THEN Len(knockouts_of(call.results)) - call.max_knockouts
               ELSE 0

\* A call that kept a knockout, reclassified another and passed a skill on.
C3_Witness ==
    /\ returned("enforce_knockout_maximum")
    /\ overflows(call.results, call.max_knockouts)
    /\ call.max_knockouts > 0
    /\ \E i \in 1..Len(call.results) : is_skill(call.results[i])
    /\ \E i \in 1..Len(ret) : ret[i] \notin Range(call.results)

\* C4: no knockout of the final output both matches the degree pattern
\* and has tfidf 0, whether it was detected by the years path or by the
\* pattern path, and whether it is required or preferred.
C4_NoAbsentDegreeKnockout ==
    LET absent_degree(r) == re_search(degree_pattern, r.kw) /\ r.tfidf = 0
        none_in(res) == \A i \in 1..Len(res) : ~absent_degree(res[i])
    IN  /\ (call.fn = "main" /\ after_guardrail) =>
              /\ none_in(knockouts_of(results))
              /\ none_in(knockout_keywords)
              /\ none_in(knockout_requirements)
        /\ saved.written => none_in(saved.knockout_requirements)

\* A finished run in which the guardrail demoted a degree knockout that had
\* survived the cap, and a knockout was still written.
C4_Witness ==
    /\ saved.written
    /\ LET enforced == enforce_knockout_maximum(ranked_results, args.max_knockouts)
       IN  \E i \in 1..Len(enforced) : guardrail_demotes(enforced[i])
    /\ Len(saved.knockout_requirements) > 0


occurrences(x, s) == Len(Filter(s, LAMBDA y : y = x))

RECURSIVE all_aliases(_)
all_aliases(res) ==
    IF res = <<>> THEN <<>> ELSE Head(res).aliases \o all_aliases(Tail(res))

texts_of(res) == [i \in 1..Len(res) |-> res[i].kw]

scores_of(res) == [i \in 1..Len(res) |-> res[i].score]

\* C5: the canonical entries returned by cluster_aliases are a true
\* partition of the keywords given, also when two of them carry the same
\* text: each input keyword is the representative of exactly one entry or
\* is listed once among the aliases of exactly one entry, never both and
\* never neither; no entry lists its own representative among its aliases.
C5_TruePartition ==
    returned("cluster_aliases") =>
       LET input == texts_of(call.ranked_keywords)
           named == texts_of(ret) \o all_aliases(ret)
       IN  /\ \A t \in Range(input) \cup Range(named) :
                 occurrences(t, named) = occurrences(t, input)
           /\ \A i \in 1..Len(ret) : ret[i].kw \notin Range(ret[i].aliases)

\* A call with two keywords of the same text and a third one, clustered
\* together, of which one input keyword is named nowhere in the output.
C5_Witness ==
    /\ returned("cluster_aliases")
    /\ Len(call.ranked_keywords) = 3
    /\ Len(ret) = 1
    /\ Cardinality(Range(texts_of(call.ranked_keywords))) = 2
    /\ Len(ret[1].aliases) = 1

strictly_above(res, multiplier) ==
    Filter(res, LAMBDA k : above_threshold_strict(k.score, scores_of(res), multiplier))

\* C6: given more than min_keywords entries of which at least min_keywords
\* pass the threshold, trim_by_median returns exactly the entries whose
\* score is strictly greater than multiplier x median of the input scores;
\* an entry whose score equals the threshold is removed.
C6_StrictlyAboveThreshold ==
    (returned("trim_by_median")
        /\ Len(call.canonical_keywords) > call.min_keywords
        /\ Len(strictly_above(call.canonical_keywords, call.median_multiplier))
              >= call.min_keywords) =>
       ret = strictly_above(call.canonical_keywords, call.median_multiplier)

\* A call with a positive median after which an entry whose score equals
\* multiplier x median is still in the result.
C6_Witness ==
    /\ returned("trim_by_median")
    /\ Len(call.canonical_keywords) > call.min_keywords
    /\ median_twice(scores_of(call.canonical_keywords)) > 0
    /\ Len(strictly_above(call.canonical_keywords, call.median_multiplier))
          >= call.min_keywords
    /\ \E i \in 1..Len(ret) :
          20 * ret[i].score = call.median_multiplier
                                 * median_twice(scores_of(call.canonical_keywords))

\* C7: trim_by_median returns at least min(min_keywords, input size)
\* entries, all taken from the input; an input of at most min_keywords
\* entries is returned unchanged; when fewer than min_keywords entries pass
\* the threshold (are strictly above it) the result is exactly the
\* min_keywords highest-scoring entries.
C7_TrimFloor ==
    returned("trim_by_median") =>
       LET input == call.canonical_keywords
           floor == call.min_keywords
       IN  /\ Len(ret) >= Min(floor, Len(input))
           /\ \A x \in Range(ret) : occurrences(x, ret) <= occurrences(x, input)
           /\ Len(input) <= floor => ret = input
           /\ (Len(input) > floor
                 /\ Len(strictly_above(input, call.median_multiplier)) < floor) =>
                 scores_of(ret) = Take(scores_of(SortedBy(input, score_key)), floor)

\* A call in which fewer than min_keywords entries are strictly above the
\* threshold and more than min_keywords entries are returned.
C7_Witness ==
    /\ returned("trim_by_median")
    /\ Len(call.canonical_keywords) > call.min_keywords
    /\ Len(strictly_above(call.canonical_keywords, call.median_multiplier))
          < call.min_keywords
    /\ Len(ret) > call.min_keywords

matches_years_pattern(text) ==
    \E i \in 1..Len(years_patterns) : re_search(years_patterns[i], text)

\* C8: a keyword that matches the soft-skill lexicon is categorized as
\* skill by categorize_keyword, whatever its role weight and whichever
\* years, hard, medium, degree or required-language patterns it matches.
C8_SoftSkillIsSkill ==
    (returned("categorize_keyword") /\ is_soft_skill(call.keyword)) =>
       /\ ret.category = "skill"
       /\ ret.knockout_type = "none"
       /\ ret.confidence = 0
       /\ ret.detection_method = "none"

\* A soft-skill keyword of high role weight that also matches a years
\* pattern, returned as a skill.
C8_Witness ==
    /\ returned("categorize_keyword")
    /\ is_soft_skill(call.keyword)
    /\ matches_years_pattern(call.keyword)
    /\ call.role_weight >= high_role_weight
    /\ ret.category = "skill"

Families == {"hard", "medium", "years_high_role", "degree_high_role",
             "required_language"}

family_matches(family, text, role_weight) ==
    CASE family = "hard" ->
            \E i \in 1..Len(hard_patterns) : re_search(hard_patterns[i], text)
      [] family = "medium" ->
            \E i \in 1..Len(medium_patterns) : re_search(medium_patterns[i], text)
      [] family = "years_high_role" ->
            re_search("\\d+\\+?\\s*years?", text) /\ role_weight >= high_role_weight
      [] family = "degree_high_role" ->
            re_search("\\b(degree|bachelor|master|mba|phd)\\b", text)
            /\ role_weight >= high_role_weight
      [] family = "required_language" -> HasToken(text, {"required", "minimum"})

family_weight(family) ==
    CASE family = "hard" -> hard_pattern_weight
      [] family = "medium" -> medium_pattern_weight
      [] family = "years_high_role" -> years_high_role_weight
      [] family = "degree_high_role" -> degree_high_role_weight
      [] family = "required_language" -> required_language_weight

matched_families(text, role_weight) ==
    {f \in Families : family_matches(f, text, role_weight)}

RECURSIVE family_sum(_)
family_sum(F) ==
    IF F = {} THEN 0
    ELSE LET f == CHOOSE x \in F : TRUE
         IN  family_weight(f) + family_sum(F \ {f})

\* C10: the accumulated knockout confidence is the sum of the increments
\* of the pattern families that matched (hard 0.6, medium 0.3, years with
\* high role weight 0.4, degree with high role weight 0.4, required language
\* 0.2), each family counted once however many of its patterns match; the
\* confidence and the decision knockout (sum >= threshold) or skill depend
\* only on the set of matched families.
C10_ConfidenceIsFamilySum ==
    /\ returned("calculate_knockout_confidence") =>
          ret = family_sum(matched_families(call.keyword, call.role_weight))
    /\ (returned("categorize_keyword")
          /\ ~is_soft_skill(call.keyword)
          /\ ~matches_years_pattern(call.keyword)) =>
          LET sum == family_sum(matched_families(call.keyword, call.role_weight))
          IN  /\ ret.category = "knockout" <=> sum >= confidence_threshold
              /\ ret.category = "knockout" => ret.confidence = sum
              /\ ret.category = "skill" => ret.confidence = 0

\* A call whose keyword matches two hard patterns and three more families.
C10_Witness ==
    /\ returned("calculate_knockout_confidence")
    /\ count_pattern_matches(call.keyword, hard_patterns) >= 2
    /\ Cardinality(matched_families(call.keyword, call.role_weight)) >= 4
    /\ ret = hard_pattern_weight + medium_pattern_weight
               + degree_high_role_weight + required_language_weight


\* C11: the composite score never falls when the tfidf value, the section
\* boost or the role weight is raised while the other two and the keyword
\* text stay fixed: neither the base score, nor the score after the title
\* and compound enhancements, nor the final score after the buzzword
\* penalty and the rounding.
C11_ScoreMonotone ==
    returned("composite_score") =>
       LET no_lower(other) ==
               /\ other.base >= ret.base
               /\ other.enhanced >= ret.enhanced
               /\ other.final.score >= ret.final.score
       IN  /\ \A t \in TfidfValues : t >= call.tfidf_score =>
                 no_lower(composite_score(t, call.section_score, call.role_score,
                                          call.kw_text, call.title_keyword, FALSE))
           /\ \A b \in SectionValues : b >= call.section_score =>
                 no_lower(composite_score(call.tfidf_score, b, call.role_score,
                                          call.kw_text, call.title_keyword, FALSE))
           /\ \A w \in RoleWeightValues : w >= call.role_score =>
                 no_lower(composite_score(call.tfidf_score, call.section_score, w,
                                          call.kw_text, call.title_keyword, FALSE))

\* A buzzword that is a job title keyword, scored below the score it gets
\* with a higher section boost.
C11_Witness ==
    /\ returned("composite_score")
    /\ is_buzzword(call.kw_text)
    /\ call.title_keyword
    /\ ret.final.score > 0
    /\ \E b \in SectionValues :
          /\ b > call.section_score
          /\ composite_score(call.tfidf_score, b, call.role_score, call.kw_text,
                             call.title_keyword, FALSE).final.score > ret.final.score


nothing_scored ==
    /\ results = <<>>
    /\ canonical_keywords = <<>>
    /\ knockout_requirements = <<>>
    /\ top_skills = <<>>

resume_unusable == files.resume_file \in {"missing", "invalid_json"}

C13_ResumeErrorsAbort ==
    (call.fn = "main" /\ args.resume /\ resume_unusable) =>
        /\ pc = "exited"
        /\ exit_status = "exit_1"
        /\ nothing_scored
        /\ ~saved.written

\* A run given a resume path that does not exist scored its keywords, wrote
\* its output and exited 0.
C13_Witness ==
    /\ call.fn = "main"
    /\ args.resume
    /\ files.resume_file = "missing"
    /\ results # <<>>
    /\ pc = "done"
    /\ exit_status = "exit_0"
    /\ saved.written

(***************************************************************************)
(* C14: if computing the embeddings or the clustering fails for two or     *)
(* more skills, the run continues: every input skill is its own canonical  *)
(* entry without aliases, and trimming, selection and export still produce *)
(* their outputs.                                                          *)
(* cluster_aliases has no handler and neither has main(): the exception    *)
(* ends the process before anything is clustered or written.               *)
(***************************************************************************)
skill_results == Filter(results, is_skill)

C14_ClusteringFailureDegrades ==
    (call.fn = "main" /\ files.model = "raises") =>
        /\ pc # "exited"
        /\ exit_status # "exit_1"
        /\ clustered_skills = skill_results
        /\ \A i \in 1..Len(clustered_skills) : clustered_skills[i].aliases = <<>>
        /\ canonical_keywords = knockouts_of(results) \o skill_results

\* A run with two skills whose embedding raised: the process is gone, nothing
\* was clustered and no file was written.
C14_Witness ==
    /\ call.fn = "main"
    /\ files.model = "raises"
    /\ Len(skill_results) >= 2
    /\ pc = "exited"
    /\ exit_status = "exit_1"
    /\ canonical_keywords = <<>>
    /\ ~saved.written

(***************************************************************************)
(* C15: if the similarity computation fails for one keyword during         *)
(* injection, that keyword ends with an empty list of injection points,    *)
(* every other keyword of the batch still receives its own matches, and    *)
(* the batch runs to completion.                                           *)
(* The failure is answered with a vector of zeros, from which the top      *)
(* three units are taken as for any other keyword: the keyword is given    *)
(* up to three injection points of similarity 0.                           *)
(***************************************************************************)
own_matches(keyword, n) ==
    LET top == top_indices(keyword.similarities)
    IN  [j \in 1..Len(top) |->
            create_injection_point(top[j], keyword.similarities[top[j]])]

C15_FailedKeywordHasNoMatches ==
    (returned("find_injection_points") /\ call.content_units > 0) =>
        \A i \in 1..Len(call.keywords) :
            (/\ call.keywords[i].cosine_raises
             /\ \A j \in 1..Len(call.keywords) :
                   j # i => ~call.keywords[j].cosine_raises)
            => /\ ~ret.raised
               /\ ret.keywords[i].injection_points = <<>>
               /\ \A j \in 1..Len(call.keywords) :
                     j # i => ret.keywords[j].injection_points =
                                 own_matches(call.keywords[j], call.content_units)

\* A batch of two keywords over four content units, completed: the first
\* keyword's similarity computation failed and it carries three injection
\* points of similarity 0; the second carries its own three matches.
C15_Witness ==
    /\ returned("find_injection_points")
    /\ call.impl = "monolith"
    /\ call.content_units = 4
    /\ Len(call.keywords) = 2
    /\ call.keywords[1].cosine_raises
    /\ ~call.keywords[2].cosine_raises
    /\ ~ret.raised
    /\ Len(ret.keywords[1].injection_points) = 3
    /\ \A j \in 1..3 : ret.keywords[1].injection_points[j].similarity = 0
    /\ ret.keywords[2].injection_points =
          own_matches(call.keywords[2], call.content_units)
    /\ ret.keywords[2].injection_points[1].similarity = 800

(***************************************************************************)
(* C16: a malformed configuration (the three composite-score weights do    *)
(* not sum to approximately 1, or a pattern does not compile) aborts the   *)
(* program at startup, on every entry point of the pipeline.               *)
(* Only kw_rank.py validates, and its check on the sum is "not above 1".   *)
(***************************************************************************)
weights_sum(config) == config.tfidf + config.section + config.role

\* within a hundredth of 1
sums_to_about_one(config) == weights_sum(config) - 1000 \in -10..10

malformed(config) == ~sums_to_about_one(config) \/ ~config.patterns_compile

C16_MalformedConfigAborts ==
    (returned("startup") /\ malformed(call.config)) => ret.aborted

\* The modular entry point started with default weights and a pattern that
\* does not compile.
C16_Witness ==
    /\ returned("startup")
    /\ call.entry = "modular"
    /\ sums_to_about_one(call.config)
    /\ ~call.config.patterns_compile
    /\ ~ret.aborted

(***************************************************************************)
(* C17: the configuration is an immutable object passed into each stage,   *)
(* not process-wide mutable state: two runs in one process that use        *)
(* different configurations never influence each other's classifications,  *)
(* and no stage observes a configuration change made by another run.       *)
(* Here: a run that has enforced the knockout maximum has enforced its own.*)
(***************************************************************************)
C17_RunsAreIsolated ==
    call.fn = "two_runs" =>
        \A i \in RunIds :
            runs.run[i].at = "done" =>
                runs.run[i].enforced =
                    enforce_knockout_maximum(runs.run[i].results, runs.run[i].wants)

\* Run 1 set the maximum to 2, run 2 then set it to 0, and run 1 enforced:
\* both of its knockouts were made skills.
C17_Witness ==
    /\ call.fn = "two_runs"
    /\ runs.run[1].wants = 2
    /\ runs.run[2].wants = 0
    /\ runs.run[1].at = "done"
    /\ Len(knockouts_of(runs.run[1].results)) = 2
    /\ knockouts_of(runs.run[1].enforced) = <<>>

(***************************************************************************)
(* C18: clustering operates on skills only: every entry that is a knockout *)
(* when clustering starts appears in the canonical output as its own entry *)
(* with all fields unchanged, is never given aliases, is never absorbed as *)
(* an alias of another entry, and is never removed by median trimming.     *)
(* kw_rank/main.py does so; main() of src/kw_rank.py clusters all results, *)
(* knockouts and skills together, and separates them afterwards.           *)
(***************************************************************************)
\* each knockout of res is an entry of out, as often as it is one of res
kept_as_entries(res, out) ==
    \A k \in Range(knockouts_of(res)) : occurrences(k, out) = occurrences(k, res)

\* the aliases listed in out are accounted for by the skills of res
aliases_from_skills(res, out) ==
    \A t \in Range(all_aliases(out)) :
        occurrences(t, all_aliases(out)) <= occurrences(t, texts_of(Filter(res, is_skill)))

knockouts_bypass(res, canonical, knockouts_out) ==
    /\ kept_as_entries(res, canonical)
    /\ aliases_from_skills(res, canonical)
    /\ kept_as_entries(res, knockouts_out)
    /\ Len(knockouts_out) = Len(knockouts_of(res))

C18_KnockoutsBypassClustering ==
    /\ (call.fn = "main" /\ pc \in {"select_top_results", "process_resume_injection",
                                   "save_and_display_results", "done"}) =>
           knockouts_bypass(results, canonical_keywords, knockout_keywords)
    /\ (call.fn = "main" /\ pc \in {"process_resume_injection",
                                   "save_and_display_results", "done"}) =>
           knockouts_bypass(results, canonical_keywords, knockout_requirements)
    /\ (call.fn = "main" /\ pc = "done") =>
           knockouts_bypass(results, canonical_keywords, saved.knockout_requirements)
    /\ returned("process_clustering_and_trimming") =>
           knockouts_bypass(call.results, ret.canonical_keywords, ret.knockout_keywords)

\* The clustering stage of src/kw_rank.py, given a knockout and a skill of a
\* higher score that fall into one cluster: the skill is the canonical entry,
\* the knockout is listed among its aliases and is no entry any more.
C18_Witness ==
    /\ returned("process_clustering_and_trimming")
    /\ call.impl = "monolith"
    /\ Len(call.results) = 2
    /\ is_knockout(call.results[1])
    /\ is_skill(call.results[2])
    /\ Len(ret.canonical_keywords) = 1
    /\ ret.canonical_keywords[1].aliases = <<call.results[1].kw>>
    /\ ret.knockout_keywords = <<>>

\* The same stage in kw_rank/main.py, over a knockout and two skills that are
\* clustered: the knockout is the first canonical entry, unchanged.
C18_ModularBypasses ==
    returned("process_clustering_and_trimming") /\ call.impl = "modular" =>
        /\ knockouts_bypass(call.results, ret.canonical_keywords, ret.knockout_keywords)
        /\ ret.knockout_keywords = knockouts_of(call.results)

(***************************************************************************)
(* C19: if TF-IDF vectorization raises, scoring does not fail: every       *)
(* keyword receives the fallback relevance min(occurrences of its text in  *)
(* the posting / 10, 1), which lies in [0, 1], and the run continues       *)
(* through the later stages.  (Scores in thousandths.)                     *)
(***************************************************************************)
\* both inputs were loaded and process_keywords has run
scored ==
    /\ files.keywords_file = "ok" /\ files.job_file = "ok"
    /\ pc \notin {"start", "process_keywords"}

C19_TfidfFallback ==
    /\ returned("fallback_score") =>
          /\ ret \in 0..1000
          /\ call.count <= 10 => ret = call.count * 100
          /\ call.count >= 10 => ret = 1000
    /\ (call.fn = "main" /\ scored /\ vectorizer_raises(keywords)) =>
          /\ \A i \in 1..Len(results) :
                /\ results[i].tfidf = 100 * occurrences_in(job_text, results[i].kw)
                /\ results[i].tfidf \in 0..1000
          /\ args.drop_buzz \/ Len(results) = Len(keywords)
          /\ pc = "exited" => files.model = "raises"

\* A run whose keywords file names one text twice (the vectorizer rejects the
\* vocabulary): both keywords were scored on the fallback, one tenth for the
\* one mention in the posting, and the run wrote its output.
C19_Witness ==
    /\ call.fn = "main"
    /\ Len(keywords) >= 2
    /\ vectorizer_raises(keywords)
    /\ Len(results) = Len(keywords)
    /\ \E i \in 1..Len(results) : results[i].tfidf = 100
    /\ pc = "done"
    /\ saved.written

\* The fallback for a keyword that occurs twelve times in the posting: 1.0
C19_WitnessCap ==
    /\ returned("fallback_score")
    /\ call.count = 12
    /\ ret = 1000

(***************************************************************************)
(* C20: in drop mode a keyword that is a buzzword is removed at scoring    *)
(* and takes part in no later stage: it is never classified, never counted *)
(* against the knockout maximum, never a cluster representative or an      *)
(* alias, and never present in the knockout or skills output.              *)
(***************************************************************************)
no_buzzword_in(res) ==
    /\ \A i \in 1..Len(res) : ~is_buzzword(res[i].kw) /\ ~res[i].is_buzzword
    /\ \A t \in Range(all_aliases(res)) : ~is_buzzword(t)

not_buzzwords(kws) == Filter(kws, LAMBDA k : ~is_buzzword(k.text))

C20_DroppedBuzzwordsTakeNoPart ==
    (call.fn = "main" /\ args.drop_buzz /\ scored) =>
        /\ no_buzzword_in(results)
        /\ no_buzzword_in(canonical_keywords)
        /\ no_buzzword_in(knockout_keywords)
        /\ no_buzzword_in(clustered_skills)
        /\ no_buzzword_in(trimmed_skills)
        /\ no_buzzword_in(knockout_requirements)
        /\ no_buzzword_in(top_skills)
        /\ no_buzzword_in(saved.knockout_requirements)
        /\ no_buzzword_in(saved.skills_ranked)
        /\ Len(results) = Len(not_buzzwords(keywords))
        /\ \A t \in Range(texts_of(results)) :
              occurrences(t, texts_of(results)) =
                 occurrences(t, [i \in 1..Len(keywords) |-> keywords[i].text])

\* A finished run in drop mode whose keywords file holds the buzzword
\* 'strategy', mentioned in the posting, next to two other keywords.
C20_Witness ==
    /\ call.fn = "main"
    /\ args.drop_buzz
    /\ pc = "done"
    /\ Len(keywords) = 3
    /\ \E i \in 1..Len(keywords) :
          is_buzzword(keywords[i].text) /\ mentions(job_text, keywords[i].text)
    /\ Len(results) = 2
    /\ saved.written
    /\ saved.skills_ranked # <<>>

(***************************************************************************)
(* C21: an empty keyword list is not an error: the run completes without   *)
(* exiting, writes the analysis and checklist outputs, and both the        *)
(* knockout list and the skills list of the outputs are empty.             *)
(***************************************************************************)
loaded_empty ==
    /\ call.fn = "main"
    /\ files.keywords_file = "ok" /\ files.job_file = "ok"
    /\ keywords = <<>>

canonical_is_chosen(cluster, canonical) ==
    /\ (\E i \in 1..Len(cluster) : is_experience_keyword(cluster[i].kw))
          => is_experience_keyword(canonical.kw)
    /\ \A i \in 1..Len(cluster) :
          is_experience_keyword(cluster[i].kw) = is_experience_keyword(canonical.kw)
             => cluster[i].score <= canonical.score
    /\ \E i \in 1..Len(cluster) : with_aliases(cluster[i], canonical.aliases) = canonical

C22_CanonicalRepresentative ==
    returned("cluster_aliases") =>
        LET clusters == group_keywords_by_cluster(call.ranked_keywords, call.labels)
        IN  /\ Len(ret) = Len(clusters)
            /\ \A c \in 1..Len(clusters) : canonical_is_chosen(clusters[c], ret[c])

\* A cluster of three: an experience keyword of score 0.1 and two plain
\* keywords, one of score 0.2; the experience keyword represents it with 0.1.
C22_Witness ==
    /\ returned("cluster_aliases")
    /\ Len(call.ranked_keywords) = 3
    /\ Len(ret) = 1
    /\ is_experience_keyword(ret[1].kw)
    /\ ret[1].score = 100
    /\ \E i \in 1..3 : /\ ~is_experience_keyword(call.ranked_keywords[i].kw)
                       /\ call.ranked_keywords[i].score = 200
    /\ Len(ret[1].aliases) = 2

(***************************************************************************)
(* C23: the final outputs are ordered: the knockout list has every         *)
(* required knockout before every other one and descending scores within   *)
(* each group; the skills list holds at most top entries in descending     *)
(* score order, none of a lower score than a trimmed skill left out.       *)
(***************************************************************************)
knockouts_ordered(res) ==
    \A i, j \in 1..Len(res) :
        i < j => /\ type_priority(res[i]) <= type_priority(res[j])
                 /\ type_priority(res[i]) = type_priority(res[j])
                       => res[i].score >= res[j].score

skills_ordered(res, trimmed, top) ==
    /\ Len(res) <= top
    /\ Len(res) = Min(top, Len(trimmed))
    /\ \A i, j \in 1..Len(res) : i < j => res[i].score >= res[j].score
    /\ \A t \in Range(trimmed) : occurrences(t, res) <= occurrences(t, trimmed)
    /\ \A t \in Range(res) : occurrences(t, res) <= occurrences(t, trimmed)
    /\ \A t \in Range(trimmed) :
          occurrences(t, res) < occurrences(t, trimmed)
             => \A i \in 1..Len(res) : res[i].score >= t.score

C23_OutputsOrdered ==
    /\ (call.fn = "main" /\ pc \in {"process_resume_injection",
                                   "save_and_display_results", "done"}) =>
          /\ knockouts_ordered(knockout_requirements)
          /\ skills_ordered(top_skills, trimmed_skills, args.top)
    /\ (call.fn = "main" /\ pc = "done") =>
          /\ knockouts_ordered(saved.knockout_requirements)
          /\ skills_ordered(saved.skills_ranked, trimmed_skills, args.top)
    /\ returned("select_top_results") =>
          /\ knockouts_ordered(ret.knockout_requirements)
          /\ \A k \in Range(call.knockout_keywords) :
                occurrences(k, ret.knockout_requirements) =
                   occurrences(k, call.knockout_keywords)
          /\ Len(ret.knockout_requirements) = Len(call.knockout_keywords)
          /\ skills_ordered(ret.top_skills, call.trimmed_skills, call.top)

\* A written knockout list whose required entry precedes a preferred entry of
\* a higher score.
C23_Witness ==
    /\ call.fn = "main"
    /\ pc = "done"
    /\ Len(saved.knockout_requirements) >= 2
    /\ saved.knockout_requirements[1].knockout_type = "required"
    /\ saved.knockout_requirements[2].knockout_type = "preferred"
    /\ saved.knockout_requirements[1].score < saved.knockout_requirements[2].score

\* select_top_results given three trimmed skills and top 2: the two of score
\* 0.2 are listed, the one of score 0.1 is left out.
C23_WitnessSkills ==
    /\ returned("select_top_results")
    /\ call.top = 2
    /\ Len(call.trimmed_skills) = 3
    /\ call.trimmed_skills[1].score = 100
    /\ Len(ret.top_skills) = 2
    /\ \A i \in 1..2 : ret.top_skills[i].score = 200

(***************************************************************************)
(* C24: for every keyword, injection attaches exactly min(3, number of     *)
(* non-empty content units) injection points; they are the content units   *)
(* of the highest cosine similarity to the keyword, listed in descending   *)
(* similarity.                                                             *)
(* find_injection_points of kw_rank/core/injection.py raises NameError in  *)
(* encode_content_embeddings before it reaches its first keyword, so it    *)
(* attaches nothing.  (The loop of src/kw_rank.py does attach them.)       *)
(***************************************************************************)
top_of(points, similarities) ==
    /\ Len(points) = Min(3, Len(similarities))
    /\ \A j \in 1..Len(points) :
          /\ points[j].location \in 1..Len(similarities)
          /\ points[j].similarity = similarities[points[j].location]
    /\ \A j, k \in 1..Len(points) :
          j < k => /\ points[j].similarity >= points[k].similarity
                   /\ points[j].location # points[k].location
    /\ \A u \in 1..Len(similarities) :
          (\A j \in 1..Len(points) : points[j].location # u)
             => \A j \in 1..Len(points) : points[j].similarity >= similarities[u]

C24_TopThreeAttached ==
    (returned("find_injection_points") /\ call.impl = "modular") =>
        /\ ~ret.raised
        /\ \A i \in 1..Len(call.keywords) :
              ~call.keywords[i].cosine_raises =>
                  top_of(ret.keywords[i].injection_points,
                         [u \in 1..call.content_units |->
                             call.keywords[i].similarities[u]])

\* A call with four content units and two keywords whose similarities were
\* computable: it raised, and neither keyword carries an injection point.
C24_Witness ==
    /\ returned("find_injection_points")
    /\ call.impl = "modular"
    /\ call.content_units = 4
    /\ Len(call.keywords) = 2
    /\ \A i \in 1..2 : ~call.keywords[i].cosine_raises
    /\ ret.raised
    /\ \A i \in 1..2 : ret.keywords[i].injection_points = <<>>

\* The loop of src/kw_rank.py attaches the top three in descending order.
C24_MonolithAttaches ==
    (returned("find_injection_points") /\ call.impl = "monolith") =>
        /\ ~ret.raised
        /\ \A i \in 1..Len(call.keywords) :
              ~call.keywords[i].cosine_raises =>
                  top_of(ret.keywords[i].injection_points,
                         [u \in 1..call.content_units |->
                             call.keywords[i].similarities[u]])

(***************************************************************************)
(* C25: classify_match returns 'already present' whenever the keyword text *)
(* is contained in the content unit, whatever the similarity; without      *)
(* textual containment the class depends only on the similarity: at or     *)
(* above the high threshold 'already present', at or above the medium      *)
(* threshold and below the high one 'needs short phrase', and below the    *)
(* medium threshold 'suggest new bullet'.                                  *)
(* Without containment the code first counts the keyword's words present   *)
(* in the unit: with 70% of them present the class is 'already present'    *)
(* at any similarity.                                                      *)
(***************************************************************************)
C25_ContainmentThenSimilarity ==
    returned("classify_match") =>
        IF contains_text(call.content_text, call.keyword_text)
        THEN ret = "already contains keyword"
        ELSE /\ call.similarity_score >= 800 => ret = "already contains keyword"
             /\ (call.similarity_score >= 700 /\ call.similarity_score < 800)
                   => ret = "may need short phrase"
             /\ call.similarity_score < 700 => ret = "suggest adding new bullet"

\* 'product management' against a unit that reads 'management ai product', at
\* similarity 0.5: already present.
C25_Witness ==
    /\ returned("classify_match")
    /\ call.keyword_text = <<"product", "management">>
    /\ call.content_text = <<"management", "ai", "product">>
    /\ ~contains_text(call.content_text, call.keyword_text)
    /\ call.similarity_score = 500
    /\ ret = "already contains keyword"

\* C25 as amended: 'already present' whenever the keyword text is contained
\* in the content unit or at least 70% of the keyword's words of three or
\* more letters occur in it, whatever the similarity; otherwise the class
\* depends only on the similarity, by the two thresholds.
long_words(keyword_text) ==
    {i \in 1..Len(keyword_text) : word_length(keyword_text[i]) >= 3}

near_containment(content_text, keyword_text) ==
    LET present == {i \in long_words(keyword_text) :
                       \E j \in 1..Len(content_text) : content_text[j] = keyword_text[i]}
    IN  /\ long_words(keyword_text) # {}
        /\ 10 * Cardinality(present) >= 7 * Cardinality(long_words(keyword_text))

C25_ExactOrNearThenSimilarity ==
    returned("classify_match") =>
        IF \/ contains_text(call.content_text, call.keyword_text)
           \/ near_containment(call.content_text, call.keyword_text)
        THEN ret = "already contains keyword"
        ELSE /\ call.similarity_score >= 800 => ret = "already contains keyword"
             /\ (call.similarity_score >= 700 /\ call.similarity_score < 800)
                   => ret = "may need short phrase"
             /\ call.similarity_score < 700 => ret = "suggest adding new bullet"

(***************************************************************************)
(* C26: if cap enforcement reclassified at least one knockout as skill     *)
(* because of overflow, the final knockout output contains exactly         *)
(* max_knockouts entries: a knockout that the degree guardrail demotes     *)
(* never takes a capped slot from a knockout that would have survived the  *)
(* guardrail.                                                              *)
(* main() enforces the cap first and applies the guardrail to the result:  *)
(* a kept knockout that the guardrail then demotes leaves its slot empty.  *)
(***************************************************************************)
cap_overflowed == overflows(ranked_results, args.max_knockouts)

C26_CappedSlotsStayFilled ==
    /\ (call.fn = "main" /\ pc = "done" /\ cap_overflowed) =>
          Len(saved.knockout_requirements) = args.max_knockouts
    /\ (returned("enforce_and_guardrail")
           /\ overflows(call.results, call.max_knockouts)) =>
          Len(knockouts_of(ret)) = call.max_knockouts

\* The two stages under a cap of 1, given an 'mba' knockout absent from the
\* posting and a years knockout of a lower score: the cap keeps 'mba' and
\* makes the years knockout a skill, the guardrail demotes 'mba', and no
\* knockout is left although the years knockout passes the guardrail.
C26_Witness ==
    /\ returned("enforce_and_guardrail")
    /\ call.max_knockouts = 1
    /\ Len(call.results) = 2
    /\ \E i, j \in 1..2 :
          /\ guardrail_demotes(call.results[i])
          /\ ~guardrail_demotes(call.results[j])
          /\ call.results[i].score > call.results[j].score
    /\ knockouts_of(ret) = <<>>

\* A finished run of main(): two degree knockouts absent from the posting were
\* ranked under a cap of 1, and the written knockout list is empty.
C26_WitnessRun ==
    /\ call.fn = "main"
    /\ pc = "done"
    /\ args.max_knockouts = 1
    /\ cap_overflowed
    /\ saved.knockout_requirements = <<>>


\* C27: the knockout confidence that categorize_keyword attaches to a
\* keyword lies between 0 and 1 (0..10 in tenths), for every role weight
\* and every combination of matched pattern families; so does the sum that
\* calculate_knockout_confidence returns.
C27_ConfidenceInUnitInterval ==
    /\ returned("categorize_keyword") => ret.confidence \in 0..10
    /\ returned("calculate_knockout_confidence") => ret \in 0..10

\* A keyword without a years pattern, of high role weight, that matches a
\* hard pattern, a degree mention and required language: categorize_keyword
\* returns it as a pattern-based knockout of confidence 0.6 + 0.4 + 0.2.
C27_Witness ==
    /\ returned("categorize_keyword")
    /\ ~is_soft_skill(call.keyword)
    /\ ~matches_years_pattern(call.keyword)
    /\ {"hard", "degree_high_role", "required_language"}
          \subseteq matched_families(call.keyword, call.role_weight)
    /\ ret.category = "knockout"
    /\ ret.detection_method = "pattern_based"
    /\ ret.confidence > 10


\* C30: the years path and the accumulated-confidence path of
\* categorize_keyword type a knockout with the same preference lexicon: a
\* knockout whose text contains a configured preferred indicator is typed
\* preferred whichever path classified it, and one that contains none is
\* typed required.
C30_SamePreferenceLexicon ==
    (returned("categorize_keyword") /\ ret.category = "knockout") =>
       ret.knockout_type = IF HasToken(call.keyword, preferred_indicators)
                           THEN "preferred" ELSE "required"

\* A years keyword with the configured indicator 'bonus', which the list of
\* detect_years_knockout lacks: the years path returned it as required, and
\* is_preferred_requirement holds of the same text.
C30_Witness ==
    /\ returned("categorize_keyword")
    /\ ret.detection_method = "years_based"
    /\ HasToken(call.keyword, {"bonus"})
    /\ is_preferred_requirement(call.keyword)
    /\ ~years_preference_language(call.keyword)
    /\ ret.knockout_type = "required"

\* The accumulated-confidence path types the same indicator as preferred.
C30_WitnessPattern ==
    /\ returned("categorize_keyword")
    /\ ret.detection_method = "pattern_based"
    /\ HasToken(call.keyword, {"bonus"})
    /\ ret.knockout_type = "preferred"


\* The first top entries of the skills ordered by decreasing score, entries
\* of equal score in the order of the list.
top_by_score(skills, top) == Take(SortedBy(skills, score_key), top)

\* C28: when the requested top count is at most the trimming floor, median
\* trimming has no effect on the final skills list: it is, in membership and
\* in order, the top entries by score of the clustered skills taken without
\* trimming, for every list of clustered skills, tied scores included.
C28_TrimmingInvisibleUnderFloor ==
    /\ (returned("trim_and_select_top_skills")
           /\ call.top <= call.min_keywords) =>
          ret = top_by_score(call.clustered_skills, call.top)
    /\ (call.fn = "main" /\ pc = "process_resume_injection"
           /\ args.top <= args.min_keywords) =>
          top_skills = top_by_score(clustered_skills, args.top)

\* A call with three clustered skills, two of them tied, of which trimming
\* removes one (one score alone reaches the threshold, below the floor of
\* two), and a top count equal to the floor.
C28_Witness ==
    /\ returned("trim_and_select_top_skills")
    /\ call.top = 2 /\ call.min_keywords = 2
    /\ Len(call.clustered_skills) = 3
    /\ \E i, j \in 1..3 :
          /\ i < j
          /\ call.clustered_skills[i].score = call.clustered_skills[j].score
          /\ call.clustered_skills[i].kw # call.clustered_skills[j].kw
    /\ Len(trim_by_median(call.clustered_skills, call.median_multiplier,
                          call.min_keywords)) = 2
    /\ Len(ret) = 2

\* A call in which the threshold alone decides (enough skills reach it) and
\* removes a skill, with tied scores among the kept ones.
C28_WitnessThreshold ==
    /\ returned("trim_and_select_top_skills")
    /\ call.top = 2 /\ call.min_keywords = 2
    /\ Len(call.clustered_skills) = 3
    /\ LET scores == scores_of(call.clustered_skills)
       IN  Len(Filter(call.clustered_skills,
                      LAMBDA k : at_or_above_threshold(k.score, scores,
                                                       call.median_multiplier))) = 2
    /\ ret[1].score = ret[2].score
    /\ ret[1].kw # ret[2].kw

\* A finished selection of a run of main() whose top count is at most the
\* floor and whose trimming removed a clustered skill.
C28_WitnessRun ==
    /\ call.fn = "main" /\ pc = "process_resume_injection"
    /\ args.top <= args.min_keywords
    /\ args.top > 0
    /\ Len(trimmed_skills) < Len(clustered_skills)


\* The keywords of the two lists that carry injection points.
carrying_injection_points(res) ==
    {i \in 1..Len(res.knockout_requirements) :
        res.knockout_requirements[i].injection_points # <<>>}
    \cup {Len(res.knockout_requirements) + i : i \in
            {j \in 1..Len(res.top_skills) :
                res.top_skills[j].injection_points # <<>>}}

\* C29: when resume processing fails with an error, the run proceeds without
\* sentence matching as announced, also when injection points were already
\* attached to some keywords: no keyword of the knockout or skills output
\* carries injection points.
C29_InjectionAllOrNothing ==
    (returned("process_resume_injection") /\ ret.warned) =>
       carrying_injection_points(ret) = {}

\* A resume with content, read by the implementation of src/kw_rank.py: the
\* first keyword was encoded and given its injection points, encoding the
\* second raised, the warning was printed, and the first keyword is returned
\* with its injection points, the second without.
C29_Witness ==
    /\ returned("process_resume_injection")
    /\ call.impl = "monolith"
    /\ call.resume_file = "ok"
    /\ call.content_units > 0
    /\ ~encode_raises((call.knockout_requirements \o call.top_skills)[1])
    /\ encode_raises((call.knockout_requirements \o call.top_skills)[2])
    /\ ret.warned
    /\ carrying_injection_points(ret) = {1}

\* In kw_rank/core/injection.py the NameError of encode_content_embeddings
\* comes before the loop: a call that failed attached nothing.
C29_ModularFailsBeforeLoop ==
    (returned("process_resume_injection") /\ call.impl = "modular"
        /\ ret.warned) =>
       carrying_injection_points(ret) = {}

====
